---- MODULE Spec2Model ----
(***************************************************************************)
(* A model of the simulation core of the lobster boat game: the planar     *)
(* physics integrator (boat.ts), the polygon collision subsystem           *)
(* (camera.ts lines 275-524, collision.ts) and the ear-clipping            *)
(* triangulator.                                                           *)
(*                                                                         *)
(* Numbers.  The program computes with IEEE doubles.  The model computes   *)
(* with exact rationals [n |-> numerator, d |-> denominator > 0] kept in   *)
(* lowest terms, so a value has one representation and = is equality of    *)
(* numbers.  Rounding is not modelled.  Two places of the program leave    *)
(* the rationals:                                                          *)
(*   - Math.sqrt.  A unit axis (x/len, z/len) is kept as the primitive     *)
(*     integer vector of its direction with l2 = x*x + z*z, standing for   *)
(*     (x, z)/sqrt(l2); a scalar measured along that axis is kept          *)
(*     multiplied by sqrt(l2).  Lengths are compared by their squares.     *)
(*     A product axis * overlap is rational again.                         *)
(*   - Math.sin / Math.cos.  A heading is kept by its sine and cosine, a   *)
(*     rational point of the unit circle.                                  *)
(***************************************************************************)
EXTENDS Integers, Sequences, FiniteSets, TLC

VARIABLES
    state,        \* GameState: position, velocity, heading, angularVelocity
    pre,          \* the GameState at the entry of the handler that ran last
    colliders,    \* Game.islandColliders: a sequence of [polygon |-> ...]
    input,        \* InputState handed to updateBoatPhysics
    dt,           \* delta time handed to updateBoatPhysics
    pc,           \* position of the caller: "call" before, "done" after
    boatCorners,  \* argument of getCollisionMTV
    islandPolygon,\* argument of getCollisionMTV / triangulatePolygon
    result,       \* value returned by getCollisionMTV (NoMTV for null)
    indices,      \* triangulatePolygon: the ring of active vertex indices
    triangles,    \* triangulatePolygon: the triangles emitted so far
    iterations,   \* triangulatePolygon: outer loop iterations run so far
    calls,        \* calls of updateBoatPhysics made so far
    clock,        \* the last reading of performance.now(), in ms
    lastTime,     \* Game.lastTime
    lastFrameTime,\* Game.lastFrameTime
    cameraState,  \* CameraState: currentPosition, currentLookAt, viewMode
    portPolygon,  \* Game.portPolygon
    atPort,       \* Game.atPort
    loading,      \* the islands whose collider promise is still pending
    projections,  \* the arguments a and b of getOverlap
    overlapValue, \* the value returned by getOverlap (<< >> before the call)
    persistentState, \* Game.persistentState: traps, depositedLobsters
    nearTrapIndex,\* Game.nearTrapIndex (0 for null)
    reelMode,     \* the mode the reel button shows (GameUI.setReelButtonMode)
    storage,      \* what savePersistentState wrote last (<< >> for nothing)
    lobsterCount, \* GameUI.lobsterCount, the total shown to the player
    trapManager,  \* TrapManager: templates, loadedCount, meshes, loaded
    presses       \* presses handled so far: of the reel button, or of keys

overlapVars == <<projections, overlapValue>>

reelVars == <<persistentState, nearTrapIndex, reelMode, storage, lobsterCount,
              trapManager, presses>>

gameVars == <<calls, clock, lastTime, lastFrameTime, cameraState, portPolygon,
              atPort, loading, overlapVars, reelVars>>

vars == <<state, pre, colliders, input, dt, pc, boatCorners, islandPolygon,
          result, indices, triangles, iterations, calls, clock, lastTime,
          lastFrameTime, cameraState, portPolygon, atPort, loading,
          overlapVars, reelVars>>

-----------------------------------------------------------------------------
(* Rational arithmetic: the model of the program's number type.            *)

Abs(a) == IF a < 0 THEN -a ELSE a

RECURSIVE GCD(_, _)
GCD(a, b) == IF b = 0 THEN a ELSE GCD(b, a % b)

\* n/d in lowest terms with a positive denominator (d # 0).
Rat(n, d) ==
    LET g == GCD(Abs(n), Abs(d))
    IN  IF d < 0 THEN [n |-> (-n) \div g, d |-> (-d) \div g]
                 ELSE [n |-> n \div g, d |-> d \div g]

Num(n) == [n |-> n, d |-> 1]
Zero == Num(0)
One == Num(1)

RAdd(a, b) == IF a.d = 1 /\ b.d = 1 THEN [n |-> a.n + b.n, d |-> 1]
              ELSE IF a.d = b.d THEN Rat(a.n + b.n, a.d)
              ELSE LET g == GCD(a.d, b.d)
                   IN  Rat(a.n * (b.d \div g) + b.n * (a.d \div g),
                           a.d * (b.d \div g))
RNeg(a) == [n |-> -a.n, d |-> a.d]
RSub(a, b) == RAdd(a, RNeg(b))
\* Cross-cancelled before multiplying, to keep the intermediate products small.
RMul(a, b) ==
    LET g1 == GCD(Abs(a.n), b.d)
        g2 == GCD(Abs(b.n), a.d)
    IN  IF a.n = 0 \/ b.n = 0 THEN Zero
        ELSE IF a.d = 1 /\ b.d = 1 THEN [n |-> a.n * b.n, d |-> 1]
        ELSE [n |-> (a.n \div g1) * (b.n \div g2),
              d |-> (a.d \div g2) * (b.d \div g1)]
RInv(a) == Rat(a.d, a.n)
RDiv(a, b) == RMul(a, RInv(b))
RSign(a) == IF a.n > 0 THEN 1 ELSE IF a.n < 0 THEN -1 ELSE 0

\* n1/d1 < n2/d2 for d1, d2 > 0, by the integer parts and then the
\* remainders, without forming a product.
RECURSIVE FracLess(_, _, _, _)
FracLess(n1, d1, n2, d2) ==
    LET q1 == n1 \div d1
        q2 == n2 \div d2
        r1 == n1 % d1
        r2 == n2 % d2
    IN  IF q1 # q2 THEN q1 < q2
        ELSE IF r2 = 0 THEN FALSE
        ELSE IF r1 = 0 THEN TRUE
        ELSE FracLess(d2, r2, d1, r1)

RLt(a, b) == IF a.d = b.d THEN a.n < b.n ELSE FracLess(a.n, a.d, b.n, b.d)
RLe(a, b) == a = b \/ RLt(a, b)
RGt(a, b) == RLt(b, a)
RGe(a, b) == RLe(b, a)
RMin(a, b) == IF RLt(b, a) THEN b ELSE a
RMax(a, b) == IF RLt(a, b) THEN b ELSE a
RSq(a) == RMul(a, a)

\* Vec2 { x, z }
Vec(x, z) == [x |-> x, z |-> z]
Pt(x, z) == [x |-> Num(x), z |-> Num(z)]
VAdd(a, b) == [x |-> RAdd(a.x, b.x), z |-> RAdd(a.z, b.z)]
VSub(a, b) == [x |-> RSub(a.x, b.x), z |-> RSub(a.z, b.z)]
VScale(a, k) == [x |-> RMul(a.x, k), z |-> RMul(a.z, k)]
Dot(a, b) == RAdd(RMul(a.x, b.x), RMul(a.z, b.z))
\* x*x + z*z, the square of Math.sqrt(x*x + z*z)
Len2(a) == Dot(a, a)

\* const x = v; ... F(x): v is evaluated once and F reads its value.
Let(v, F(_)) == CHOOSE r \in { F(x) : x \in {v} } : TRUE

-----------------------------------------------------------------------------
(* The collision kernel.                                                   *)

BOAT_LENGTH == 3
BOAT_WIDTH == Rat(3, 2)

\* Math.sin(heading), Math.cos(heading): a heading is kept by the two.
Sin(heading) == heading.sin
Cos(heading) == heading.cos
\* A heading by its sine and cosine; turned is the angle in radians the
\* integrator has added to it so far.
Heading(s, c, d) == [sin |-> Rat(s, d), cos |-> Rat(c, d), turned |-> Zero]

\* The 4 corners of the boat's bounding box in world space.
getBoatCorners(st) ==
    LET cos == Cos(st.heading)
        sin == Sin(st.heading)
        halfL == RDiv(Num(BOAT_LENGTH), Num(2))
        halfW == RDiv(BOAT_WIDTH, Num(2))
        localCorners == << Vec(RNeg(halfW), halfL), Vec(halfW, halfL),
                           Vec(halfW, RNeg(halfL)), Vec(RNeg(halfW), RNeg(halfL)) >>
    IN  [i \in 1..4 |->
            LET c == localCorners[i]
            IN  Vec(RAdd(st.position.x, RSub(RMul(c.x, cos), RMul(c.z, sin))),
                    RAdd(st.position.z, RAdd(RMul(c.x, sin), RMul(c.z, cos))))]

\* The unit vector (x / len, z / len) of a nonzero rational vector, kept as
\* the primitive integer vector of the same direction and l2 = its squared
\* length: it stands for (x, z) / sqrt(l2).
UnitAxis(v) ==
    LET a == v.x.n * v.z.d
        b == v.z.n * v.x.d
        g == GCD(Abs(a), Abs(b))
    IN  [x |-> a \div g, z |-> b \div g,
         l2 |-> (a \div g) * (a \div g) + (b \div g) * (b \div g)]

\* One axis per edge of nonzero length: the edge's normal, normalised.
RECURSIVE AxesFrom(_, _)
AxesFrom(polygon, i) ==
    IF i > Len(polygon) THEN << >>
    ELSE LET p1 == polygon[i]
             p2 == polygon[(i % Len(polygon)) + 1]
             edge == VSub(p2, p1)
         IN  IF Len2(edge) # Zero
             THEN << UnitAxis(Vec(RNeg(edge.z), edge.x)) >> \o AxesFrom(polygon, i + 1)
             ELSE AxesFrom(polygon, i + 1)

getPolygonAxes(polygon) == AxesFrom(polygon, 1)

\* v.x * axis.x + v.z * axis.z for the unit axis, times sqrt(axis.l2).
ProjectPoint(v, axis) == RAdd(RMul(v.x, Num(axis.x)), RMul(v.z, Num(axis.z)))

RECURSIVE ProjectFrom(_, _, _, _)
ProjectFrom(polygon, axis, i, acc) ==
    IF i > Len(polygon) THEN acc
    ELSE LET proj == ProjectPoint(polygon[i], axis)
         IN  ProjectFrom(polygon, axis, i + 1,
                         [min |-> RMin(acc.min, proj), max |-> RMax(acc.max, proj)])

\* min/max of the projections of a polygon with at least one vertex (the
\* program starts from +-Infinity; every caller passes 3 or 4 vertices).
projectPolygon(polygon, axis) ==
    LET first == ProjectPoint(polygon[1], axis)
    IN  ProjectFrom(polygon, axis, 2, [min |-> first, max |-> first])

\* getOverlap without its first line: the gap between the intervals is not
\* reported as 0.
getOverlapNoGap(a, b) == RMin(RSub(a.max, b.min), RSub(b.max, a.min))

\* getOverlap measuring from one side only.
getOverlapOneSide(a, b) ==
    IF RLt(a.max, b.min) \/ RLt(b.max, a.min) THEN Zero
    ELSE RSub(a.max, b.min)

getOverlap(a, b) ==
    IF RLt(a.max, b.min) \/ RLt(b.max, a.min) THEN Zero
    ELSE RMin(RSub(a.max, b.min), RSub(b.max, a.min))

\* o1 / sqrt(l1) < o2 / sqrt(l2) for o1, o2 >= 0.
OverlapLess(o1, l1, o2, l2) ==
    RLt(RMul(RSq(o1), Num(l2)), RMul(RSq(o2), Num(l1)))

NoAxis == [x |-> 0, z |-> 0, l2 |-> 0]
NoMTV == [null |-> TRUE, x |-> Zero, z |-> Zero]
MTV(x, z) == [null |-> FALSE, x |-> x, z |-> z]

\* The comparison of the axis loop with <= for <: the last axis wins.
AlwaysSmaller(overlap, axis, best) == TRUE

\* The comparison of the axis loop: overlap < minOverlap (Infinity at first).
SmallerOverlap(overlap, axis, best) ==
    best.mtvAxis = NoAxis
        \/ OverlapLess(overlap, axis.l2, best.minOverlap, best.mtvAxis.l2)

\* The loop over allAxes of getCollisionMTV; separated is the early return.
RECURSIVE AxisLoop(_, _, _, _, _)
AxisLoop(boat, island, allAxes, i, best) ==
    IF i > Len(allAxes) THEN best
    ELSE Let(getOverlap(projectPolygon(boat, allAxes[i]),
                        projectPolygon(island, allAxes[i])),
             LAMBDA overlap :
                IF overlap = Zero
                THEN [separated |-> TRUE, minOverlap |-> Zero, mtvAxis |-> NoAxis]
                ELSE IF SmallerOverlap(overlap, allAxes[i], best)
                     THEN AxisLoop(boat, island, allAxes, i + 1,
                                   [separated |-> FALSE, minOverlap |-> overlap,
                                    mtvAxis |-> allAxes[i]])
                     ELSE AxisLoop(boat, island, allAxes, i + 1, best))

RECURSIVE CenterFrom(_, _, _)
CenterFrom(polygon, i, acc) ==
    IF i > Len(polygon) THEN acc
    ELSE CenterFrom(polygon, i + 1,
                    VAdd(acc, VScale(polygon[i], Rat(1, Len(polygon)))))

\* reduce((acc, v) => acc + v / length, {0, 0})
Center(polygon) == CenterFrom(polygon, 1, Vec(Zero, Zero))

\* Flip MTV if it points toward island
FlipAxis(axis, toBoat) ==
    LET dot == RAdd(RMul(toBoat.x, Num(axis.x)), RMul(toBoat.z, Num(axis.z)))
    IN  IF RLt(dot, Zero) THEN [x |-> -axis.x, z |-> -axis.z, l2 |-> axis.l2]
        ELSE axis

\* The axis getCollisionMTV ends its loop with ([separated, minOverlap, mtvAxis]).
MinAxis(boat, island) ==
    Let(getPolygonAxes(boat) \o getPolygonAxes(island),
        LAMBDA allAxes :
            AxisLoop(boat, island, allAxes, 1,
                     [separated |-> FALSE, minOverlap |-> Zero, mtvAxis |-> NoAxis]))

\* The direction and length given to the axis the loop ended with.
DirectedMTV(boat, island, best) ==
    IF best.separated \/ best.mtvAxis = NoAxis THEN NoMTV
    ELSE LET toBoat == VSub(Center(boat), Center(island))
             mtvAxis == FlipAxis(best.mtvAxis, toBoat)
             \* (x / sqrt(l2)) * (minOverlap / sqrt(l2))
             k == RDiv(best.minOverlap, Num(best.mtvAxis.l2))
         IN  MTV(RMul(Num(mtvAxis.x), k), RMul(Num(mtvAxis.z), k))

\* SAT collision detection between boat (rectangle) and island polygon.
getCollisionMTV(boat, island) ==
    Let(MinAxis(boat, island), LAMBDA best : DirectedMTV(boat, island, best))

-----------------------------------------------------------------------------
(* The ear-clipping triangulator.                                          *)

RECURSIVE AreaFrom(_, _)
AreaFrom(polygon, i) ==
    IF i > Len(polygon) THEN Zero
    ELSE LET p1 == polygon[i]
             p2 == polygon[(i % Len(polygon)) + 1]
         IN  RAdd(RSub(RMul(p1.x, p2.z), RMul(p2.x, p1.z)), AreaFrom(polygon, i + 1))

\* Shoelace formula: the signed area.
getPolygonArea(polygon) == RDiv(AreaFrom(polygon, 1), Num(2))

\* Barycentric test; false for a degenerate triangle (denom === 0).
isPointInTriangle(p, a, b, c) ==
    LET v0 == VSub(c, a)
        v1 == VSub(b, a)
        v2 == VSub(p, a)
        dot00 == Dot(v0, v0)
        dot01 == Dot(v0, v1)
        dot02 == Dot(v0, v2)
        dot11 == Dot(v1, v1)
        dot12 == Dot(v1, v2)
        denom == RSub(RMul(dot00, dot11), RMul(dot01, dot01))
    IN  IF denom = Zero THEN FALSE
        ELSE LET invDenom == RInv(denom)
                 u == RMul(RSub(RMul(dot11, dot02), RMul(dot01, dot12)), invDenom)
                 v == RMul(RSub(RMul(dot00, dot12), RMul(dot01, dot02)), invDenom)
             IN  RGe(u, Zero) /\ RGe(v, Zero) /\ RLe(RAdd(u, v), One)

\* const isCCW = getPolygonArea(polygon) > 0
IsCCW(polygon) == RGt(getPolygonArea(polygon), Zero)

\* The closure isConvex of triangulatePolygon.
isConvex(isCCW, prev, curr, next) ==
    LET cross == RSub(RMul(RSub(curr.x, prev.x), RSub(next.z, curr.z)),
                      RMul(RSub(curr.z, prev.z), RSub(next.x, curr.x)))
    IN  IF isCCW THEN RGt(cross, Zero) ELSE RLt(cross, Zero)

\* indices[(i - 1 + length) % length] and indices[(i + 1) % length], for the
\* 1-based position i of the model.
PrevIndex(ring, i) == ring[((i - 2 + Len(ring)) % Len(ring)) + 1]
NextIndex(ring, i) == ring[(i % Len(ring)) + 1]

\* IsEar without the test that no other ring vertex lies in the triangle.
IsEarUnchecked(polygon, ring, isCCW, i) ==
    isConvex(isCCW, polygon[PrevIndex(ring, i)], polygon[ring[i]],
             polygon[NextIndex(ring, i)])

\* The body of the inner for loop: position i of the ring is cut as an ear.
IsEar(polygon, ring, isCCW, i) ==
    LET prevIndex == PrevIndex(ring, i)
        currIndex == ring[i]
        nextIndex == NextIndex(ring, i)
        prev == polygon[prevIndex]
        curr == polygon[currIndex]
        next == polygon[nextIndex]
    IN  /\ isConvex(isCCW, prev, curr, next)
        /\ ~ \E j \in 1..Len(ring) :
                /\ ring[j] \notin {prevIndex, currIndex, nextIndex}
                /\ isPointInTriangle(polygon[ring[j]], prev, curr, next)

\* for (let i = 0; i < indices.length; i++): the first position that is cut.
RECURSIVE EarFrom(_, _, _, _)
EarFrom(polygon, ring, isCCW, i) ==
    IF i > Len(ring) THEN 0
    ELSE IF IsEar(polygon, ring, isCCW, i) THEN i
    ELSE EarFrom(polygon, ring, isCCW, i + 1)

\* The first position the inner loop cuts at, 0 when it finds no ear.
FirstEar(polygon, ring) == EarFrom(polygon, ring, IsCCW(polygon), 1)

\* indices.splice(i, 0): nothing is removed.
SpliceNothing(ring, i) == ring

\* indices.splice(i, 1)
Splice(ring, i) == [k \in 1..(Len(ring) - 1) |-> IF k < i THEN ring[k] ELSE ring[k + 1]]

EarTriangle(polygon, ring, i) ==
    << polygon[PrevIndex(ring, i)], polygon[ring[i]], polygon[NextIndex(ring, i)] >>

\* if (indices.length === 3) triangles.push(...)
LastTriangle(polygon, ring, tris) ==
    IF Len(ring) = 3
    THEN Append(tris, << polygon[ring[1]], polygon[ring[2]], polygon[ring[3]] >>)
    ELSE tris

\* The while loop of triangulatePolygon and what follows it.
RECURSIVE ClipLoop(_, _, _)
ClipLoop(polygon, ring, tris) ==
    IF Len(ring) > 3
    THEN Let(FirstEar(polygon, ring),
             LAMBDA i :
                IF i = 0 THEN LastTriangle(polygon, ring, tris)
                ELSE Let(<< Splice(ring, i), Append(tris, EarTriangle(polygon, ring, i)) >>,
                         LAMBDA next : ClipLoop(polygon, next[1], next[2])))
    ELSE LastTriangle(polygon, ring, tris)

triangulatePolygon(polygon) ==
    IF Len(polygon) < 3 THEN << >>
    ELSE ClipLoop(polygon, [i \in 1..Len(polygon) |-> i], << >>)

\* The loop keeping the MTV of the last triangle that collides.
RECURSIVE LastMTVFrom(_, _, _, _)
LastMTVFrom(boat, tris, i, best) ==
    IF i > Len(tris) THEN best
    ELSE Let(getCollisionMTV(boat, tris[i]),
             LAMBDA mtv :
                IF mtv.null THEN LastMTVFrom(boat, tris, i + 1, best)
                ELSE LastMTVFrom(boat, tris, i + 1, [mtv |-> mtv, len2 |-> Zero]))

\* The loop of getConcaveCollisionMTV: best is [mtv, len2], len2 the square of
\* bestLen, and mtv = NoMTV while bestLen is Infinity.
RECURSIVE BestMTVFrom(_, _, _, _)
BestMTVFrom(boat, tris, i, best) ==
    IF i > Len(tris) THEN best
    ELSE Let(getCollisionMTV(boat, tris[i]),
             LAMBDA mtv :
                IF mtv.null THEN BestMTVFrom(boat, tris, i + 1, best)
                ELSE Let(RAdd(RSq(mtv.x), RSq(mtv.z)),
                         LAMBDA len2 :
                            IF best.mtv.null \/ RLt(len2, best.len2)
                            THEN BestMTVFrom(boat, tris, i + 1,
                                             [mtv |-> mtv, len2 |-> len2])
                            ELSE BestMTVFrom(boat, tris, i + 1, best)))

getConcaveCollisionMTV(boat, island) ==
    Let(triangulatePolygon(island),
        LAMBDA tris : BestMTVFrom(boat, tris, 1, [mtv |-> NoMTV, len2 |-> Zero]).mtv)

-----------------------------------------------------------------------------
(* The collision coupler.                                                  *)

\* 0.001 squared: mtvLen > 0.001 is decided on the squares.
\* No least magnitude for the velocity correction.
NoThreshold == Zero

\* (0.001)^2: mtvLen > 0.001 is decided on the squares.
EPSILON2 == Rat(1, 1000000)
DAMPING == Rat(7, 10)

\* The damping without the cancelling of the component into the island.
DampenOnly(velocity, mtv) ==
    IF RGt(Len2(Vec(mtv.x, mtv.z)), EPSILON2) THEN VScale(velocity, DAMPING)
    ELSE velocity

\* The component into the island cancelled, the rest divided by the damping
\* factor where the code multiplies by it.
CollisionSpeedUp(velocity, mtv) ==
    LET m == Vec(mtv.x, mtv.z)
        mtvLen2 == Len2(m)
        vm == Dot(velocity, m)
        slid == IF RLt(vm, Zero)
                THEN VSub(velocity, VScale(m, RDiv(vm, mtvLen2)))
                ELSE velocity
    IN  IF RGt(mtvLen2, EPSILON2) THEN VScale(slid, RDiv(One, DAMPING)) ELSE velocity

\* Cancel velocity component into the island, then dampen.
\* normal * velDot = mtv * (velocity . mtv) / |mtv|^2, and velDot < 0 iff
\* velocity . mtv < 0.
CollisionVelocity(velocity, mtv) ==
    LET m == Vec(mtv.x, mtv.z)
        mtvLen2 == Len2(m)
        vm == Dot(velocity, m)
        slid == IF RLt(vm, Zero)
                THEN VSub(velocity, VScale(m, RDiv(vm, mtvLen2)))
                ELSE velocity
    IN  IF RGt(mtvLen2, EPSILON2) THEN VScale(slid, DAMPING) ELSE velocity

\* if (mtv) { push the boat out; cancel and dampen the velocity }
ApplyMTV(st, mtv) ==
    IF mtv.null THEN st
    ELSE [st EXCEPT !.position = VAdd(st.position, Vec(mtv.x, mtv.z)),
                    !.velocity = CollisionVelocity(st.velocity, mtv)]

\* The body of the for loop of handleIslandCollisions for one collider.
CollideWith(st, collider) ==
    IF Len(collider.polygon) < 3 THEN st
    ELSE Let(getBoatCorners(st),
             LAMBDA corners :
                Let(getConcaveCollisionMTV(corners, collider.polygon),
                    LAMBDA mtv : ApplyMTV(st, mtv)))

\* collision.ts: one collider, taken as convex (no triangulation).
handleIslandCollision(st, collider) ==
    IF Len(collider.polygon) < 3 THEN st
    ELSE Let(getBoatCorners(st),
             LAMBDA corners :
                Let(getCollisionMTV(corners, collider.polygon),
                    LAMBDA mtv : ApplyMTV(st, mtv)))

\* The loop with return for continue: it ends at the first short polygon.
RECURSIVE CollideUntilShort(_, _, _)
CollideUntilShort(st, cs, i) ==
    IF i > Len(cs) THEN st
    ELSE IF Len(cs[i].polygon) < 3 THEN st
    ELSE Let(CollideWith(st, cs[i]), LAMBDA next : CollideUntilShort(next, cs, i + 1))

RECURSIVE CollideFrom(_, _, _)
CollideFrom(st, cs, i) ==
    IF i > Len(cs) THEN st
    ELSE Let(CollideWith(st, cs[i]), LAMBDA next : CollideFrom(next, cs, i + 1))

handleIslandCollisions(st, cs) == CollideFrom(st, cs, 1)

-----------------------------------------------------------------------------
(* The physics integrator (boat.ts).                                       *)

ACCELERATION == 8
MAX_SPEED == 12
DRAG == Rat(49, 50)
TURN_SPEED == Rat(5, 2)
TURN_DRAG == Rat(23, 25)

\* Headings with a rational sine and cosine: 0, pi/2, pi, 3pi/2 and the
\* angles of the 3-4-5 triangle.
Headings ==
    { Heading(0, 1, 1), Heading(1, 0, 1), Heading(0, -1, 1), Heading(-1, 0, 1),
      Heading(3, 4, 5), Heading(4, 3, 5), Heading(-3, 4, 5) }

\* The largest r in lo..hi with r * r <= n (lo * lo <= n < (hi + 1)^2).
RECURSIVE ISqrtIn(_, _, _)
ISqrtIn(n, lo, hi) ==
    IF lo >= hi THEN lo
    ELSE LET mid == (lo + hi + 1) \div 2
         IN  IF mid * mid <= n THEN ISqrtIn(n, mid, hi) ELSE ISqrtIn(n, lo, mid - 1)

ISqrt(n) == ISqrtIn(n, 0, 46340)

\* Eighths: the resolution the square root is bracketed with.
SQRT_STEPS == 8

\* The largest k in lo..hi with (k / SQRT_STEPS)^2 <= q (the comparison is on
\* the fractions, so no product of q's numerator is formed).
RECURSIVE SqrtFloorIn(_, _, _)
SqrtFloorIn(q, lo, hi) ==
    IF lo >= hi THEN lo
    ELSE LET mid == (lo + hi + 1) \div 2
         IN  IF RLe(Rat(mid * mid, SQRT_STEPS * SQRT_STEPS), q)
             THEN SqrtFloorIn(q, mid, hi) ELSE SqrtFloorIn(q, lo, mid - 1)

\* Math.sqrt(q) for a rational q >= 0: the root when it is a multiple of
\* 1/SQRT_STEPS, else either neighbour k/SQRT_STEPS, (k+1)/SQRT_STEPS of the
\* irrational (or finer) root, which lies strictly between the two.
Sqrt(q) ==
    LET hi == SQRT_STEPS * (ISqrt(q.n \div q.d) + 1)
        k == SqrtFloorIn(q, 0, hi)
    IN  IF RSq(Rat(k, SQRT_STEPS)) = q THEN { Rat(k, SQRT_STEPS) }
        ELSE { Rat(k, SQRT_STEPS), Rat(k + 1, SQRT_STEPS) }

\* The angular drag applied before the turn input.
DragBeforeTurn(st, in, delta) ==
    RAdd(RMul(st.angularVelocity, TURN_DRAG),
         RMul(RMul(Num(in.turn), TURN_SPEED), delta))

\* state.angularVelocity += input.turn * TURN_SPEED * dt; *= TURN_DRAG
TurnedVelocity(st, in, delta) ==
    RMul(RAdd(st.angularVelocity, RMul(RMul(Num(in.turn), TURN_SPEED), delta)),
         TURN_DRAG)

\* state.heading += state.angularVelocity * dt: the heading is kept when the
\* increment is 0; a nonzero increment is added to turned and the sine and
\* cosine of any heading of Headings may follow it.
TurnedHeadings(st, angularVelocity, delta) ==
    LET step == RMul(angularVelocity, delta)
    IN  IF step = Zero THEN { st.heading }
        ELSE { [h EXCEPT !.turned = RAdd(st.heading.turned, step)] : h \in Headings }

\* The thrust applied along (cos, sin) of the heading.
ThrustSideways(st, heading, in, delta) ==
    LET thrust == RMul(Num(in.forward * ACCELERATION), delta)
    IN  Vec(RAdd(st.velocity.x, RMul(Cos(heading), thrust)),
            RAdd(st.velocity.z, RMul(Sin(heading), thrust)))

\* Apply thrust in forward direction
ThrustedVelocity(st, heading, in, delta) ==
    LET thrust == RMul(Num(in.forward * ACCELERATION), delta)
    IN  Vec(RAdd(st.velocity.x, RMul(Sin(heading), thrust)),
            RAdd(st.velocity.z, RMul(Cos(heading), thrust)))

\* The clamp left out.
NoClamp(velocity, speed) == velocity

\* Clamp speed
ClampSpeed(velocity, speed) ==
    IF RGt(speed, Num(MAX_SPEED))
    THEN Vec(RMul(RDiv(velocity.x, speed), Num(MAX_SPEED)),
             RMul(RDiv(velocity.z, speed), Num(MAX_SPEED)))
    ELSE velocity

\* updateBoatPhysics(state, input, dt) for the heading reached and the value
\* Math.sqrt returned.
updateBoatPhysics(st, in, delta, heading, speed) ==
    LET velocity == VScale(ClampSpeed(ThrustedVelocity(st, heading, in, delta), speed),
                           DRAG)
    IN  [position |-> VAdd(st.position, VScale(velocity, delta)),
         velocity |-> velocity,
         heading |-> heading,
         angularVelocity |-> TurnedVelocity(st, in, delta)]

-----------------------------------------------------------------------------
(* Numbers over several calls.  A number the game stores is kept to         *)
(* 1/ROUND_STEPS, rounded to the nearest step and on a tie to the even one  *)
(* (the rounding of a double, made coarse).                                 *)

ROUND_STEPS == 100

Floor(q) == q.n \div q.d

Round(q) ==
    LET scaled == RMul(q, Num(ROUND_STEPS))
        k == Floor(scaled)
        twice == RMul(RSub(scaled, Num(k)), Num(2))
    IN  IF RLt(twice, One) \/ (twice = One /\ k % 2 = 0)
        THEN Rat(k, ROUND_STEPS)
        ELSE Rat(k + 1, ROUND_STEPS)

RoundVec(v) == Vec(Round(v.x), Round(v.z))

\* The GameState as stored after a function has written st to it.
RoundState(st) ==
    [position |-> RoundVec(st.position),
     velocity |-> RoundVec(st.velocity),
     heading |-> [st.heading EXCEPT !.turned = Round(st.heading.turned)],
     angularVelocity |-> Round(st.angularVelocity)]

-----------------------------------------------------------------------------
(* The camera.                                                             *)

CAMERA_HEIGHT == 18
CAMERA_DISTANCE == 5
CAMERA_LOOK_AHEAD == 8
CAMERA_SMOOTHING == Rat(1, 20)
CAB_HEIGHT == Rat(5, 2)
CAB_FORWARD_OFFSET == Num(-1)
CAB_LOOK_DISTANCE == 20

\* new THREE.Vector3(x, y, z)
Vector3(x, y, z) == [x |-> x, y |-> y, z |-> z]

createCameraState ==
    [currentPosition |-> Vector3(Zero, Num(CAMERA_HEIGHT), Num(-CAMERA_DISTANCE)),
     currentLookAt |-> Vector3(Zero, Zero, Zero),
     viewMode |-> "overhead"]

\* A switch to the cab view, whatever the mode was.
setCabView(cs) == [cs EXCEPT !.viewMode = "cab"]

\* A toggle that also puts the smoothed pose back to its first value.
toggleAndReset(cs) ==
    [createCameraState EXCEPT
        !.viewMode = IF cs.viewMode = "overhead" THEN "cab" ELSE "overhead"]

toggleViewMode(cs) ==
    [cs EXCEPT !.viewMode = IF cs.viewMode = "overhead" THEN "cab" ELSE "overhead"]

\* Cab view: inside the boat looking forward
CabTargets(st, boatY) ==
    [position |-> Vector3(RAdd(st.position.x, RMul(Sin(st.heading), CAB_FORWARD_OFFSET)),
                          RAdd(boatY, CAB_HEIGHT),
                          RAdd(st.position.z, RMul(Cos(st.heading), CAB_FORWARD_OFFSET))),
     lookAt |-> Vector3(RAdd(st.position.x, RMul(Sin(st.heading), Num(CAB_LOOK_DISTANCE))),
                        RAdd(boatY, One),
                        RAdd(st.position.z, RMul(Cos(st.heading), Num(CAB_LOOK_DISTANCE))))]

\* Overhead view: behind and above the boat
OverheadTargets(st) ==
    [position |-> Vector3(RAdd(st.position.x, RMul(RNeg(Sin(st.heading)), Num(CAMERA_DISTANCE))),
                          Num(CAMERA_HEIGHT),
                          RAdd(st.position.z, RMul(RNeg(Cos(st.heading)), Num(CAMERA_DISTANCE)))),
     lookAt |-> Vector3(RAdd(st.position.x, RMul(Sin(st.heading), Num(CAMERA_LOOK_AHEAD))),
                        Zero,
                        RAdd(st.position.z, RMul(Cos(st.heading), Num(CAMERA_LOOK_AHEAD))))]

\* THREE.Vector3.lerp: this += (v - this) * alpha
Lerp3(this, v, alpha) ==
    Vector3(RAdd(this.x, RMul(RSub(v.x, this.x), alpha)),
            RAdd(this.y, RMul(RSub(v.y, this.y), alpha)),
            RAdd(this.z, RMul(RSub(v.z, this.z), alpha)))

RECURSIVE Pow(_, _)
Pow(base, k) == IF k = 0 THEN One ELSE RMul(base, Pow(base, k - 1))

\* 1 - Math.pow(1 - CAMERA_SMOOTHING, dt * 60), as stored: the value for a
\* whole exponent, else the value at either whole neighbour of the exponent.
SmoothFactors(delta) ==
    LET exponent == RMul(delta, Num(60))
        base == RSub(One, CAMERA_SMOOTHING)
    IN  IF exponent.d = 1 THEN { Round(RSub(One, Pow(base, exponent.n))) }
        ELSE { Round(RSub(One, Pow(base, Floor(exponent)))),
               Round(RSub(One, Pow(base, Floor(exponent) + 1))) }

\* An updateCamera that takes the overhead target in either view mode.
updateCameraOverhead(cs, st, boatY, smoothFactor) ==
    LET target == OverheadTargets(st)
    IN  [cs EXCEPT
            !.currentPosition = Lerp3(cs.currentPosition, target.position, smoothFactor),
            !.currentLookAt = Lerp3(cs.currentLookAt, target.lookAt, smoothFactor)]

\* updateCamera(camera, cameraState, gameState, boatY, dt) with the value of
\* smoothFactor.
updateCamera(cs, st, boatY, smoothFactor) ==
    LET target == IF cs.viewMode = "cab" THEN CabTargets(st, boatY)
                  ELSE OverheadTargets(st)
    IN  [cs EXCEPT
            !.currentPosition = Lerp3(cs.currentPosition, target.position, smoothFactor),
            !.currentLookAt = Lerp3(cs.currentLookAt, target.lookAt, smoothFactor)]

RoundVector3(v) == Vector3(Round(v.x), Round(v.y), Round(v.z))

\* The CameraState as stored after updateCamera has written cs to it.
RoundCamera(cs) ==
    [cs EXCEPT !.currentPosition = RoundVector3(cs.currentPosition),
               !.currentLookAt = RoundVector3(cs.currentLookAt)]

-----------------------------------------------------------------------------
(* The port zone.                                                          *)

\* The edge test without the comparison of x.
EdgeStraddles(position, pi, pj) ==
    RGt(pi.z, position.z) # RGt(pj.z, position.z)

\* The test of one edge (j, i) inside the loop of isAtPort.
EdgeCrosses(position, pi, pj) ==
    /\ RGt(pi.z, position.z) # RGt(pj.z, position.z)
    /\ RLt(position.x,
           RAdd(RDiv(RMul(RSub(pj.x, pi.x), RSub(position.z, pi.z)),
                     RSub(pj.z, pi.z)),
                pi.x))

\* for (let i = 0, j = length - 1; i < length; j = i++)
RECURSIVE InsideFrom(_, _, _, _, _)
InsideFrom(position, polygon, i, j, inside) ==
    IF i > Len(polygon) THEN inside
    ELSE InsideFrom(position, polygon, i + 1, i,
                    IF EdgeCrosses(position, polygon[i], polygon[j])
                    THEN ~inside ELSE inside)

\* Point-in-polygon using ray casting algorithm
isAtPort(position, polygon) ==
    IF Len(polygon) < 3 THEN FALSE
    ELSE InsideFrom(position, polygon, 1, Len(polygon), FALSE)

-----------------------------------------------------------------------------
(* The traps (types.ts, main.ts, traps.ts) and the reel button (ui.ts,      *)
(* kept in ocean.ts).  An optional field is a sequence: << >> when the      *)
(* field is undefined, << v >> when it holds v.  Trap i of the model is     *)
(* traps[i - 1] of the program, and nearTrapIndex 0 is null.  Timestamps    *)
(* are whole milliseconds, as Date.now() returns them.                      *)

PICKUP_RADIUS == 4
TRAP_MATURE_TIME == 10 * 60 * 1000
MAX_LOBSTERS == 6
TRAP_COUNT == 8

\* { inWater: false, lobsterCount: count }
TrapOnBoat(count) ==
    [inWater |-> FALSE, position |-> << >>, droppedAt |-> << >>, lobsterCount |-> count]

\* { inWater: true, position, droppedAt, lobsterCount: 0 }
TrapInWater(position, droppedAt) ==
    [inWater |-> TRUE, position |-> << position >>, droppedAt |-> << droppedAt >>,
     lobsterCount |-> 0]

createInitialPersistentState ==
    [traps |-> << TrapOnBoat(0), TrapOnBoat(0), TrapOnBoat(0), TrapOnBoat(0),
                  TrapOnBoat(0), TrapOnBoat(0), TrapOnBoat(0), TrapOnBoat(0) >>,
     depositedLobsters |-> 0]

\* traps.some((t) => !t.inWater)
hasTrapsOnBoat(ps) == \E i \in 1..Len(ps.traps) : ~ps.traps[i].inWater

\* traps.some((t) => !t.inWater && t.lobsterCount > 0)
hasLobstersOnBoat(ps) ==
    \E i \in 1..Len(ps.traps) : ~ps.traps[i].inWater /\ ps.traps[i].lobsterCount > 0

\* The loop of updateTrapState: the trap in the water nearest to the boat
\* and nearer than PICKUP_RADIUS, the first of equally near ones.  The
\* distances are compared by their squares.
RECURSIVE NearestFrom(_, _, _, _, _)
NearestFrom(ps, position, i, nearest2, index) ==
    IF i > Len(ps.traps) THEN index
    ELSE IF /\ ps.traps[i].inWater
            /\ ps.traps[i].position # << >>
            /\ RLt(Len2(VSub(ps.traps[i].position[1], position)), nearest2)
         THEN NearestFrom(ps, position, i + 1,
                          Len2(VSub(ps.traps[i].position[1], position)), i)
         ELSE NearestFrom(ps, position, i + 1, nearest2, index)

NearestTrap(ps, position) ==
    NearestFrom(ps, position, 1, Num(PICKUP_RADIUS * PICKUP_RADIUS), 0)

\* The mode updateTrapState hands to ui.setReelButtonMode.
ReelButtonMode(port, near, ps) ==
    IF port /\ hasLobstersOnBoat(ps) THEN "deposit"
    ELSE IF near # 0 THEN "pickup"
    ELSE IF hasTrapsOnBoat(ps) THEN "drop"
    ELSE "disabled"

\* traps.findIndex((t) => !t.inWater), 0 for -1
RECURSIVE FindOnBoat(_, _)
FindOnBoat(ps, i) ==
    IF i > Len(ps.traps) THEN 0
    ELSE IF ~ps.traps[i].inWater THEN i
    ELSE FindOnBoat(ps, i + 1)

\* The drop point: 3 to the left and 2 forward of the boat.
DropPoint(st) ==
    Vec(RAdd(RAdd(st.position.x, RMul(RNeg(st.heading.cos), Num(3))),
             RMul(st.heading.sin, Num(2))),
        RAdd(RAdd(st.position.z, RMul(st.heading.sin, Num(3))),
             RMul(st.heading.cos, Num(2))))

\* dropTrap with the lobsters of the trap kept.
dropKeepingLobsters(ps, st, now) ==
    LET trapIndex == FindOnBoat(ps, 1)
    IN  IF trapIndex = 0 THEN ps
        ELSE [ps EXCEPT !.traps[trapIndex] =
                 [TrapInWater(DropPoint(st), now) EXCEPT !.lobsterCount =
                      ps.traps[trapIndex].lobsterCount]]

\* The persistent state dropTrap leaves, Date.now() returning now.
dropTrap(ps, st, now) ==
    LET trapIndex == FindOnBoat(ps, 1)
    IN  IF trapIndex = 0 THEN ps
        ELSE [ps EXCEPT !.traps[trapIndex] = TrapInWater(DropPoint(st), now)]

\* The count pickupTrap computes from the time in the water and from
\* Math.random() returning random, 0 <= random < 1.
LobstersCaught(elapsed, random) ==
    IF elapsed >= TRAP_MATURE_TIME
    THEN Floor(RMul(random, Num(MAX_LOBSTERS + 1)))
    ELSE LET maxForTime == Floor(Rat(MAX_LOBSTERS * elapsed, TRAP_MATURE_TIME))
         IN  Floor(RMul(random, Num(maxForTime + 1)))

\* Date.now() - (trap.droppedAt || 0)
Elapsed(trap, now) == now - (IF trap.droppedAt = << >> THEN 0 ELSE trap.droppedAt[1])

\* pickupTrap leaving the trap its position and its droppedAt.
pickupKeepingPlace(ps, index, now, random) ==
    IF ~ps.traps[index].inWater THEN ps
    ELSE [ps EXCEPT !.traps[index].inWater = FALSE,
                    !.traps[index].lobsterCount =
                        LobstersCaught(Elapsed(ps.traps[index], now), random)]

\* pickupTrap without its first test.
pickupAnyTrap(ps, index, now, random) ==
    [ps EXCEPT !.traps[index] = TrapOnBoat(LobstersCaught(Elapsed(ps.traps[index], now), random))]

\* The persistent state pickupTrap(index) leaves.
pickupTrap(ps, index, now, random) ==
    IF ~ps.traps[index].inWater THEN ps
    ELSE [ps EXCEPT !.traps[index] =
             TrapOnBoat(LobstersCaught(Elapsed(ps.traps[index], now), random))]

\* totalDeposited of depositLobsters
RECURSIVE TotalFrom(_, _)
TotalFrom(ps, i) ==
    IF i > Len(ps.traps) THEN 0
    ELSE (IF ~ps.traps[i].inWater /\ ps.traps[i].lobsterCount > 0
          THEN ps.traps[i].lobsterCount ELSE 0) + TotalFrom(ps, i + 1)

\* The persistent state depositLobsters leaves.
depositLobsters(ps) ==
    [traps |-> [i \in 1..Len(ps.traps) |->
                   IF ~ps.traps[i].inWater /\ ps.traps[i].lobsterCount > 0
                   THEN [ps.traps[i] EXCEPT !.lobsterCount = 0]
                   ELSE ps.traps[i]],
     depositedLobsters |-> ps.depositedLobsters + TotalFrom(ps, 1)]

\* onBoat of updateLobsterCount: the sum over the traps on the boat.
RECURSIVE OnBoatFrom(_, _)
OnBoatFrom(ps, i) ==
    IF i > Len(ps.traps) THEN 0
    ELSE (IF ~ps.traps[i].inWater THEN ps.traps[i].lobsterCount ELSE 0)
         + OnBoatFrom(ps, i + 1)

\* The total updateLobsterCount hands to ui.setLobsterCount.
updateLobsterCount(ps) == ps.depositedLobsters + OnBoatFrom(ps, 1)

\* TrapManager.  templates: the assets whose template is set; a mesh set
\* keeps the visible flags of its three groups and where the buoy floats
\* (its bobbing height and its tilt are left out).
Assets == { "trap", "lobsters", "buoy" }

createTrapManager ==
    [templates |-> {}, loadedCount |-> 0, meshes |-> << >>, loaded |-> FALSE]

MeshSet == [trap |-> TRUE, lobsters |-> TRUE, buoy |-> TRUE, buoyAt |-> Pt(0, 0)]

createMeshes(tm) ==
    IF tm.templates # Assets THEN tm
    ELSE [tm EXCEPT !.meshes = @ \o [i \in 1..TRAP_COUNT |-> MeshSet]]

\* onLoaded creating the meshes at every load.
onLoadedEach(tm) ==
    [tm EXCEPT !.loadedCount = @ + 1,
               !.meshes = @ \o [i \in 1..TRAP_COUNT |-> MeshSet],
               !.loaded = TRUE]

\* onLoaded of loadAssets
onLoaded(tm) ==
    IF tm.loadedCount + 1 = 3
    THEN [createMeshes([tm EXCEPT !.loadedCount = @ + 1]) EXCEPT !.loaded = TRUE]
    ELSE [tm EXCEPT !.loadedCount = @ + 1]

\* The mesh set of trap i after the body of the loop of update.
UpdatedMeshSet(meshSet, trapState) ==
    IF trapState.inWater /\ trapState.position # << >>
    THEN [trap |-> FALSE, lobsters |-> FALSE, buoy |-> TRUE,
          buoyAt |-> trapState.position[1]]
    ELSE [meshSet EXCEPT !.buoy = FALSE, !.trap = TRUE,
                         !.lobsters = trapState.lobsterCount > 0]

\* TrapManager.update(state, time)
TrapManagerUpdate(tm, ps) ==
    IF ~tm.loaded THEN tm
    ELSE [tm EXCEPT !.meshes =
             [i \in 1..Len(tm.meshes) |->
                 IF i <= TRAP_COUNT THEN UpdatedMeshSet(tm.meshes[i], ps.traps[i])
                 ELSE tm.meshes[i]]]

-----------------------------------------------------------------------------
(* Inputs.                                                                 *)

\* createInitialGameState()
InitialGameState ==
    [position |-> Pt(-8, 0), velocity |-> Pt(0, 0),
     heading |-> Heading(0, -1, 1), angularVelocity |-> Zero]

NoInput == [forward |-> 0, turn |-> 0]

Polygon(coords) == [i \in 1..Len(coords) |-> Pt(coords[i][1], coords[i][2])]

\* What a specification leaves alone of the triangulator's variables.
IdleTriangulator ==
    /\ islandPolygon = << >>
    /\ indices = << >>
    /\ triangles = << >>
    /\ iterations = 0

\* The fields of Game and of the camera as the constructor leaves them.
IdleCruise == calls = 0

IdleLoop ==
    /\ clock = Zero
    /\ lastTime = Zero
    /\ lastFrameTime = Zero

IdleCamera == cameraState = createCameraState

IdlePort ==
    /\ portPolygon = << >>
    /\ atPort = FALSE

IdleLoaders == loading = {}

IdleOverlap ==
    /\ projections = << >>
    /\ overlapValue = << >>

\* The traps and the reel button as the constructor leaves them, nothing
\* being stored yet.
IdleReel ==
    /\ persistentState = createInitialPersistentState
    /\ nearTrapIndex = 0
    /\ reelMode = "drop"
    /\ storage = << >>
    /\ lobsterCount = 0
    /\ trapManager = createTrapManager
    /\ presses = 0

IdleGame ==
    /\ IdleCruise /\ IdleLoop /\ IdleCamera /\ IdlePort /\ IdleLoaders
    /\ IdleOverlap /\ IdleReel

-----------------------------------------------------------------------------
(* triangulatePolygon as a machine: one step per iteration of its while    *)
(* loop.  pc: "call" at entry, "loop" at the loop's test, "break" after    *)
(* the break of an iteration that found no ear, "done" at the return.      *)

MaxVerts == 4
Coords == 0..2
GridPoints == { Pt(x, z) : x \in Coords, z \in Coords }

\* The scenario polygons of the collision properties.
Square == Polygon(<< <<0, 0>>, <<10, 0>>, <<10, 10>>, <<0, 10>> >>)
LShape == Polygon(<< <<0, 0>>, <<10, 0>>, <<10, 5>>, <<5, 5>>, <<5, 10>>, <<0, 10>> >>)
Reverse(polygon) == [i \in 1..Len(polygon) |-> polygon[Len(polygon) + 1 - i]]
Rotate(polygon, k) ==
    [i \in 1..Len(polygon) |-> polygon[((i - 1 + k) % Len(polygon)) + 1]]

\* Simple polygons with more than MaxVerts vertices, in both windings.
SimpleFixtures ==
    LET ccw == { LShape,
                 Polygon(<< <<0, 0>>, <<4, 0>>, <<2, 1>>, <<4, 4>>, <<0, 4>> >>),
                 Polygon(<< <<0, 0>>, <<2, 0>>, <<4, 0>>, <<4, 4>>, <<2, 2>>, <<0, 4>> >>),
                 Polygon(<< <<0, 0>>, <<6, 0>>, <<6, 6>>, <<4, 6>>, <<4, 2>>,
                            <<2, 2>>, <<2, 6>>, <<0, 6>> >>),
                 Polygon(<< <<0, 0>>, <<3, 1>>, <<6, 0>>, <<5, 3>>, <<6, 6>>,
                            <<3, 5>>, <<0, 6>>, <<1, 3>> >>) }
    IN  UNION { { Rotate(q, k) : k \in 0..2 } \cup { Reverse(q) } : q \in ccw }

\* Malformed vertex lists with more than MaxVerts vertices: collinear,
\* self-intersecting (a pentagram, a crossed hexagon) and repeated vertices.
MalformedFixtures ==
    { Polygon(<< <<0, 0>>, <<1, 0>>, <<2, 0>>, <<3, 0>>, <<4, 0>> >>),
      Polygon(<< <<0, 2>>, <<4, 2>>, <<1, 0>>, <<2, 4>>, <<3, 0>> >>),
      Polygon(<< <<3, 0>>, <<2, 4>>, <<1, 0>>, <<4, 2>>, <<0, 2>> >>),
      Polygon(<< <<0, 0>>, <<4, 4>>, <<4, 0>>, <<0, 4>>, <<2, 6>>, <<2, -2>> >>),
      Polygon(<< <<0, 0>>, <<4, 0>>, <<4, 0>>, <<4, 4>>, <<0, 4>>, <<0, 0>> >>),
      Polygon(<< <<0, 0>>, <<4, 0>>, <<4, 4>>, <<2, 2>>, <<0, 4>>, <<2, 2>> >>),
      Polygon(<< <<0, 0>>, <<4, 0>>, <<2, 0>>, <<2, 3>>, <<2, 0>> >>),
      Polygon(<< <<0, 0>>, <<0, 0>>, <<0, 1>>, <<0, 2>>, <<1, 0>> >>) }

VertexLists ==
    UNION { [1..n -> GridPoints] : n \in 0..MaxVerts }
        \cup SimpleFixtures \cup MalformedFixtures

InitTriangulate ==
    /\ islandPolygon \in VertexLists
    /\ indices = << >>
    /\ triangles = << >>
    /\ iterations = 0
    /\ pc = "call"
    /\ state = InitialGameState
    /\ pre = InitialGameState
    /\ colliders = << >>
    /\ input = NoInput
    /\ dt = Zero
    /\ boatCorners = << >>
    /\ result = NoMTV
    /\ IdleGame

\* if (polygon.length < 3) return []; indices = polygon.map((_, i) => i)
TriEnter ==
    /\ pc = "call"
    /\ IF Len(islandPolygon) < 3
       THEN pc' = "done" /\ indices' = indices
       ELSE pc' = "loop" /\ indices' = [i \in 1..Len(islandPolygon) |-> i]
    /\ UNCHANGED gameVars
    /\ UNCHANGED <<state, pre, colliders, input, dt, boatCorners, islandPolygon,
                   result, triangles, iterations>>

\* One iteration of while (indices.length > 3): cut the first ear, or break.
TriIterate ==
    /\ pc = "loop"
    /\ Len(indices) > 3
    /\ LET i == FirstEar(islandPolygon, indices)
       IN  IF i = 0
           THEN pc' = "break" /\ UNCHANGED <<indices, triangles>>
           ELSE /\ triangles' = Append(triangles, EarTriangle(islandPolygon, indices, i))
                /\ indices' = Splice(indices, i)
                /\ pc' = "loop"
    /\ iterations' = iterations + 1
    /\ UNCHANGED gameVars
    /\ UNCHANGED <<state, pre, colliders, input, dt, boatCorners, islandPolygon, result>>

\* The loop has ended: push the last triangle if 3 indices are left; return.
TriReturn ==
    /\ \/ pc = "loop" /\ Len(indices) <= 3
       \/ pc = "break"
    /\ triangles' = LastTriangle(islandPolygon, indices, triangles)
    /\ pc' = "done"
    /\ UNCHANGED gameVars
    /\ UNCHANGED <<state, pre, colliders, input, dt, boatCorners, islandPolygon,
                   result, indices, iterations>>

NextTriangulate == TriEnter \/ TriIterate \/ TriReturn

SpecTriangulate == InitTriangulate /\ [][NextTriangulate]_vars

-----------------------------------------------------------------------------
(* Geometry the properties are stated with (not taken from the program).   *)

RAbs(a) == IF a.n < 0 THEN RNeg(a) ELSE a

\* (a - o) x (b - o)
Cross(o, a, b) ==
    RSub(RMul(RSub(a.x, o.x), RSub(b.z, o.z)), RMul(RSub(a.z, o.z), RSub(b.x, o.x)))

\* p lies on the closed segment a-b.
OnSegment(a, b, p) ==
    /\ Cross(a, b, p) = Zero
    /\ RLe(RMin(a.x, b.x), p.x) /\ RLe(p.x, RMax(a.x, b.x))
    /\ RLe(RMin(a.z, b.z), p.z) /\ RLe(p.z, RMax(a.z, b.z))

\* The closed segments a-b and c-d share a point.
SegmentsMeet(a, b, c, d) ==
    LET d1 == RSign(Cross(a, b, c))
        d2 == RSign(Cross(a, b, d))
        d3 == RSign(Cross(c, d, a))
        d4 == RSign(Cross(c, d, b))
    IN  \/ d1 * d2 < 0 /\ d3 * d4 < 0
        \/ OnSegment(a, b, c) \/ OnSegment(a, b, d)
        \/ OnSegment(c, d, a) \/ OnSegment(c, d, b)

Succ(polygon, i) == (i % Len(polygon)) + 1

\* A simple polygon: at least 3 distinct vertices, edges that follow one
\* another share only their common vertex, other edges share no point.
IsSimplePolygon(polygon) ==
    LET n == Len(polygon)
    IN  /\ n >= 3
        /\ \A i, j \in 1..n : i < j => polygon[i] # polygon[j]
        /\ \A i, j \in 1..n : i < j =>
              LET a == polygon[i]
                  b == polygon[Succ(polygon, i)]
                  c == polygon[j]
                  d == polygon[Succ(polygon, j)]
              IN  IF j = i + 1 THEN ~OnSegment(a, b, d) /\ ~OnSegment(c, d, a)
                  ELSE IF i = 1 /\ j = n THEN ~OnSegment(a, b, c) /\ ~OnSegment(c, d, b)
                  ELSE ~SegmentsMeet(a, b, c, d)

RECURSIVE SumAreas(_, _)
SumAreas(tris, i) ==
    IF i > Len(tris) THEN Zero
    ELSE RAdd(RAbs(getPolygonArea(tris[i])), SumAreas(tris, i + 1))

-----------------------------------------------------------------------------
(* C3: for every simple polygon (convex or concave, either winding) the     *)
(* triangles triangulatePolygon returns are n - 2 in number and their       *)
(* areas sum to |getPolygonArea(polygon)|.                                  *)
C3_AreaPreserved ==
    (pc = "done" /\ IsSimplePolygon(islandPolygon)) =>
        /\ Len(triangles) = Len(islandPolygon) - 2
        /\ SumAreas(triangles, 1) = RAbs(getPolygonArea(islandPolygon))

\* A clockwise concave polygon has been triangulated.
C3_Witness ==
    /\ pc = "done"
    /\ islandPolygon = Reverse(LShape)
    /\ Len(triangles) = 4

(* C10: triangulatePolygon terminates on every vertex list.  Every          *)
(* iteration of the outer loop that has run removed exactly one index of    *)
(* the ring, except a last one that found no ear and left the loop, so the  *)
(* loop runs at most n - 3 + 1 times; at most n - 2 triangles are returned. *)
C10_TriangulationTerminates ==
    LET n == Len(islandPolygon)
    IN  /\ pc = "loop" => /\ Len(indices) = n - iterations
                          /\ Len(triangles) = iterations
                          /\ Len(indices) >= 3
        /\ pc = "break" => /\ Len(indices) = n - (iterations - 1)
                           /\ Len(triangles) = iterations - 1
        /\ pc = "done" => Len(triangles) <= (IF n >= 3 THEN n - 2 ELSE 0)
        /\ iterations <= (IF n >= 3 THEN n - 2 ELSE 0)

\* The loop cut an ear and, at a later iteration, left by finding none.
C10_Witness ==
    /\ pc = "done"
    /\ iterations >= 2
    /\ Len(indices) > 3

-----------------------------------------------------------------------------
(* handleIslandCollisions (camera.ts) as a machine: one call on a pose and  *)
(* a list of colliders.                                                     *)

MaxColliders == 2

Collinear3 == Polygon(<< <<0, 0>>, <<5, 0>>, <<10, 0>> >>)
Bowtie == Polygon(<< <<0, 0>>, <<4, 4>>, <<4, 0>>, <<0, 4>> >>)

\* The L-shaped polygon from several start vertices and in both windings.
LShapes == { LShape, Rotate(LShape, 1), Rotate(LShape, 3), Reverse(LShape) }

ShortPolygons ==
    { << >>, Polygon(<< <<5, 5>> >>), Polygon(<< <<0, 0>>, <<10, 10>> >>) }

\* The polygons the collider lists of every length are made of.
ListPolygons ==
    { Square, Collinear3, LShape, << >>, Polygon(<< <<0, 0>>, <<10, 10>> >>) }

ColliderPolygons ==
    ListPolygons \cup { Bowtie } \cup LShapes \cup ShortPolygons

\* Every list of 1..MaxColliders colliders over ListPolygons, and every
\* polygon of ColliderPolygons alone.
ColliderLists ==
    UNION { [1..n -> { [polygon |-> q] : q \in ListPolygons }] :
            n \in 1..MaxColliders }
        \cup { << [polygon |-> q] >> : q \in ColliderPolygons }

CouplerHeadings == { Heading(0, 1, 1), Heading(1, 0, 1), Heading(3, 4, 5) }

\* Poses whose footprint reaches 1/2000, 1/1000 and 1/500 into x >= 0.
GrazingPoses ==
    { [position |-> Vec(Rat(n, 2000), Num(5)), velocity |-> Pt(2, 1),
       heading |-> Heading(0, 1, 1), angularVelocity |-> Zero] :
          n \in {-1499, -1498, -1496} }

CouplerPoses ==
    { [position |-> Pt(x, z), velocity |-> v, heading |-> h,
       angularVelocity |-> Zero] :
          x \in {3, 5, 7}, z \in {0, 2, 5, 7}, h \in CouplerHeadings,
          v \in { Pt(0, 0), Pt(-2, -1) } }
      \cup GrazingPoses

InitCoupler ==
    /\ state \in CouplerPoses
    /\ pre = state
    /\ colliders \in ColliderLists
    /\ pc = "call"
    /\ input = NoInput
    /\ dt = Zero
    /\ boatCorners = << >>
    /\ result = NoMTV
    /\ IdleTriangulator
    /\ IdleGame

\* handleIslandCollisions(this.gameState, this.islandColliders)
Collide ==
    /\ pc = "call"
    /\ pre' = state
    /\ state' = handleIslandCollisions(state, colliders)
    /\ pc' = "done"
    /\ UNCHANGED gameVars
    /\ UNCHANGED <<colliders, input, dt, boatCorners, islandPolygon, result,
                   indices, triangles, iterations>>

NextCoupler == Collide

SpecCoupler == InitCoupler /\ [][NextCoupler]_vars

-----------------------------------------------------------------------------
(* Geometry of convex polygons the properties are stated with (not taken    *)
(* from the program).                                                       *)

\* 1 for a counter-clockwise vertex list, -1 for a clockwise one.
RECURSIVE FanFrom(_, _)
FanFrom(polygon, i) ==
    IF i + 1 > Len(polygon) THEN Zero
    ELSE RAdd(Cross(polygon[1], polygon[i], polygon[i + 1]), FanFrom(polygon, i + 1))

Orientation(polygon) == RSign(FanFrom(polygon, 2))

\* A strictly convex simple polygon: every turn has the sign of the winding.
IsConvexPolygon(polygon) ==
    /\ IsSimplePolygon(polygon)
    /\ Orientation(polygon) # 0
    /\ \A i \in 1..Len(polygon) :
          RSign(Cross(polygon[i], polygon[Succ(polygon, i)],
                      polygon[Succ(polygon, Succ(polygon, i))])) = Orientation(polygon)

\* p lies in the closed convex polygon.
PointInConvex(p, polygon) ==
    \A i \in 1..Len(polygon) :
        RSign(Cross(polygon[i], polygon[Succ(polygon, i)], p)) * Orientation(polygon) >= 0

\* Every vertex of a lies in the closed convex polygon b.
Inside(a, b) == \A i \in 1..Len(a) : PointInConvex(a[i], b)

\* The closed convex polygons a and b share no point: no two edges meet and
\* neither holds a vertex of the other.
Disjoint(a, b) ==
    /\ \A i \in 1..Len(a), j \in 1..Len(b) :
          ~SegmentsMeet(a[i], a[Succ(a, i)], b[j], b[Succ(b, j)])
    /\ ~PointInConvex(a[1], b)
    /\ ~PointInConvex(b[1], a)

\* Every vertex of b lies on the line of edge i of a or beyond it.
EdgeSeparates(a, b, i) ==
    \A j \in 1..Len(b) :
        RSign(Cross(a[i], a[Succ(a, i)], b[j])) * Orientation(a) <= 0

\* The convex polygons a and b share a point of their interiors: no edge of
\* either has the other polygon on or beyond its line.
Overlaps(a, b) ==
    /\ \A i \in 1..Len(a) : ~EdgeSeparates(a, b, i)
    /\ \A j \in 1..Len(b) : ~EdgeSeparates(b, a, j)

\* The colliders of the list with at least 3 vertices, in order.
WithoutShort(cs) == SelectSeq(cs, LAMBDA c : Len(c.polygon) >= 3)

\* The single collider of the list is polygon q and the call has returned.
CollidedWithOnly(q) == pc = "done" /\ colliders = << [polygon |-> q] >>

-----------------------------------------------------------------------------
(* handleIslandCollision (collision.ts) as a machine: one call on a pose    *)
(* and one convex polygon.                                                  *)

MaxConvexVerts == 4

ConvexPoints == { Pt(0, 0), Pt(9, 0), Pt(9, 3), Pt(6, 9), Pt(3, 9), Pt(0, 9) }

\* Every strictly convex polygon over ConvexPoints, from every start vertex
\* and in both windings.
\* A kite whose vertex average is off the middle of its extent.
Kite == Polygon(<< <<0, 0>>, <<9, 0>>, <<3, 9>>, <<0, 12>> >>)

ConvexPolygons ==
    { q \in UNION { [1..n -> ConvexPoints] : n \in 3..MaxConvexVerts } :
          IsConvexPolygon(q) } \cup { Kite }

ConvexPoses ==
    { [position |-> Pt(x, z), velocity |-> Pt(2, 1), heading |-> h,
       angularVelocity |-> Zero] :
          x \in {-3, 3, 6, 12}, z \in {0, 3, 6, 12}, h \in CouplerHeadings }
        \cup { [position |-> Pt(3, 5), velocity |-> Pt(2, 1),
                heading |-> Heading(3, 4, 5), angularVelocity |-> Zero] }

InitConvex ==
    /\ state \in ConvexPoses
    /\ pre = state
    /\ islandPolygon \in ConvexPolygons
    /\ colliders = << [polygon |-> islandPolygon] >>
    /\ pc = "call"
    /\ input = NoInput
    /\ dt = Zero
    /\ boatCorners = << >>
    /\ result = NoMTV
    /\ indices = << >>
    /\ triangles = << >>
    /\ iterations = 0
    /\ IdleGame

\* handleIslandCollision(state, collider); boatCorners and result keep the
\* arguments and the value of its call of getCollisionMTV.
ResolveConvex ==
    /\ pc = "call"
    /\ pre' = state
    /\ boatCorners' = getBoatCorners(state)
    /\ result' = IF Len(colliders[1].polygon) < 3 THEN NoMTV
                 ELSE getCollisionMTV(getBoatCorners(state), colliders[1].polygon)
    /\ state' = handleIslandCollision(state, colliders[1])
    /\ pc' = "done"
    /\ UNCHANGED gameVars
    /\ UNCHANGED <<colliders, input, dt, islandPolygon, indices, triangles, iterations>>

NextConvex == ResolveConvex

SpecConvex == InitConvex /\ [][NextConvex]_vars

-----------------------------------------------------------------------------
(* updateBoatPhysics as a machine: one call from any prior pose.            *)

PriorPoses ==
    { [position |-> Pt(-8, 0), velocity |-> Pt(vx, vz), heading |-> h,
       angularVelocity |-> Num(av)] :
          vx \in {-15, 0, 9, 12}, vz \in {-12, 0, 5, 16},
          h \in CouplerHeadings, av \in {0, 1} }

Inputs == { [forward |-> f, turn |-> t] : f \in {-1, 0, 1}, t \in {-1, 0, 1} }

DeltaTimes == { Zero, Rat(1, 60), Rat(1, 10), One, Num(5) }

InitPhysics ==
    /\ state \in PriorPoses
    /\ pre = state
    /\ input \in Inputs
    /\ dt \in DeltaTimes
    /\ pc = "call"
    /\ colliders = << >>
    /\ boatCorners = << >>
    /\ result = NoMTV
    /\ IdleTriangulator
    /\ IdleGame

\* updateBoatPhysics(this.gameState, input, dt)
Advance ==
    /\ pc = "call"
    /\ pre' = state
    /\ \E heading \in TurnedHeadings(state, TurnedVelocity(state, input, dt), dt) :
         \E speed \in Sqrt(Len2(ThrustedVelocity(state, heading, input, dt))) :
            state' = updateBoatPhysics(state, input, dt, heading, speed)
    /\ pc' = "done"
    /\ UNCHANGED gameVars
    /\ UNCHANGED <<colliders, input, dt, boatCorners, islandPolygon, result,
                   indices, triangles, iterations>>

NextPhysics == Advance

SpecPhysics == InitPhysics /\ [][NextPhysics]_vars

-----------------------------------------------------------------------------
(* C1: against the square (0,0),(10,0),(10,10),(0,10) alone, for a pose     *)
(* whose footprint lies inside the square, getConcaveCollisionMTV returns   *)
(* an MTV, handleIslandCollisions adds it to the position, and the          *)
(* footprint of the new pose no longer overlaps the square.                 *)
C1_SquarePushesOut ==
    (CollidedWithOnly(Square) /\ Inside(getBoatCorners(pre), Square)) =>
        LET mtv == getConcaveCollisionMTV(getBoatCorners(pre), Square)
        IN  /\ ~mtv.null
            /\ state.position = VAdd(pre.position, Vec(mtv.x, mtv.z))
            /\ ~Overlaps(getBoatCorners(state), Square)

(* C2: a footprint inside the notch of the L-shaped polygon (every corner   *)
(* strictly between 5 and 10 on both axes) is separated from every triangle *)
(* of triangulatePolygon, getConcaveCollisionMTV returns null, and the call *)
(* leaves the pose as it was.                                               *)
InNotch(corners) ==
    \A i \in 1..Len(corners) :
        /\ RLt(Num(5), corners[i].x) /\ RLt(corners[i].x, Num(10))
        /\ RLt(Num(5), corners[i].z) /\ RLt(corners[i].z, Num(10))

C2_NotchIsFree ==
    \A q \in LShapes :
        (CollidedWithOnly(q) /\ InNotch(getBoatCorners(pre))) =>
            LET tris == triangulatePolygon(q)
            IN  /\ Len(tris) = 4
                /\ \A i \in 1..Len(tris) :
                      getCollisionMTV(getBoatCorners(pre), tris[i]).null
                /\ getConcaveCollisionMTV(getBoatCorners(pre), q).null
                /\ state = pre

\* A tilted footprint in the notch of the clockwise L has been tested.
C2_Witness ==
    /\ CollidedWithOnly(Reverse(LShape))
    /\ InNotch(getBoatCorners(pre))
    /\ pre.heading = Heading(3, 4, 5)
    /\ state = pre

(* C8: a collider polygon of 3 or more vertices and zero signed area is     *)
(* absent geometry: the call leaves position and velocity as they were.     *)
C8_ZeroAreaIsAbsent ==
    \A q \in ColliderPolygons :
        (CollidedWithOnly(q) /\ Len(q) >= 3 /\ getPolygonArea(q) = Zero) =>
            /\ state.position = pre.position
            /\ state.velocity = pre.velocity

(* C9: a collider polygon of fewer than 3 vertices is skipped: the call     *)
(* ends in the pose that the colliders of 3 or more vertices alone lead to, *)
(* that is the pose at entry when there is none, and heading and            *)
(* angularVelocity are as at entry.                                         *)
C9_ShortPolygonSkipped ==
    pc = "done" =>
        /\ state = handleIslandCollisions(pre, WithoutShort(colliders))
        /\ WithoutShort(colliders) = << >> => state = pre
        /\ state.heading = pre.heading
        /\ state.angularVelocity = pre.angularVelocity

\* A short polygon came first in the list and the collider after it moved
\* the boat.
C9_Witness ==
    /\ pc = "done"
    /\ Len(colliders) = 2
    /\ Len(colliders[1].polygon) = 2
    /\ colliders[2].polygon = Square
    /\ state.position # pre.position

-----------------------------------------------------------------------------
(* C4: after one call of updateBoatPhysics, from any prior velocity and for *)
(* any input and dt >= 0, the velocity has magnitude at most MAX_SPEED.     *)
(* The components are rounded away from 0 to hundredths before they are     *)
(* squared, so the bound holds a fortiori for the velocity itself.          *)
CeilAbs100(a) == (Abs(a.n) * 100 + a.d - 1) \div a.d

C4_SpeedBounded ==
    pc = "done" =>
        CeilAbs100(state.velocity.x) * CeilAbs100(state.velocity.x)
            + CeilAbs100(state.velocity.z) * CeilAbs100(state.velocity.z)
                <= (100 * MAX_SPEED) * (100 * MAX_SPEED)

\* A boat faster than MAX_SPEED was accelerated further and then clamped.
C4_Witness ==
    /\ pc = "done"
    /\ pre.velocity = Pt(12, 16)
    /\ pre.heading = Heading(3, 4, 5)
    /\ input.forward = 1
    /\ dt = Rat(1, 10)
    /\ state.velocity # pre.velocity

(* C5: when getCollisionMTV returns an MTV for the footprint and a convex   *)
(* polygon, the footprint moved by the MTV has on the chosen axis an        *)
(* overlap with the polygon that is zero or smaller than before the move.   *)
C5_MoveReducesOverlap ==
    (pc = "done" /\ ~result.null /\ IsConvexPolygon(islandPolygon)) =>
        LET axis == MinAxis(boatCorners, islandPolygon).mtvAxis
            moved == [i \in 1..Len(boatCorners) |->
                         VAdd(boatCorners[i], Vec(result.x, result.z))]
            before == getOverlap(projectPolygon(boatCorners, axis),
                                 projectPolygon(islandPolygon, axis))
            after == getOverlap(projectPolygon(moved, axis),
                                projectPolygon(islandPolygon, axis))
        IN  /\ moved = getBoatCorners(state)
            /\ after = Zero \/ RLt(after, before)

(* C6: for a footprint and a convex polygon that share no point,            *)
(* getCollisionMTV returns null (and the pose is left as it was).           *)
C6_DisjointIsNull ==
    (pc = "done" /\ IsConvexPolygon(islandPolygon)
        /\ Disjoint(boatCorners, islandPolygon)) =>
            result.null /\ state = pre

\* The footprint lies off the long edge of a triangle, inside the triangle's
\* bounding box: only the normal of that edge separates the two.
C6_Witness ==
    /\ pc = "done"
    /\ islandPolygon = Polygon(<< <<0, 0>>, <<9, 0>>, <<0, 9>> >>)
    /\ pre.position = Pt(6, 6)
    /\ pre.heading = Heading(0, 1, 1)
    /\ Disjoint(boatCorners, islandPolygon)
    /\ result.null

(* C7: for a footprint and a convex polygon that overlap, getCollisionMTV   *)
(* returns an MTV whose magnitude is the minimum of getOverlap over the     *)
(* edge normals of the footprint and of the polygon (compared by squares).  *)
AxisOverlap2(boat, island, axis) ==
    RDiv(RSq(getOverlap(projectPolygon(boat, axis), projectPolygon(island, axis))),
         Num(axis.l2))

C7_MagnitudeIsMinOverlap ==
    (pc = "done" /\ IsConvexPolygon(islandPolygon)
        /\ Overlaps(boatCorners, islandPolygon)) =>
            LET axes == getPolygonAxes(boatCorners) \o getPolygonAxes(islandPolygon)
                len2 == Len2(Vec(result.x, result.z))
            IN  /\ ~result.null
                /\ \A i \in 1..Len(axes) :
                      RLe(len2, AxisOverlap2(boatCorners, islandPolygon, axes[i]))
                /\ \E i \in 1..Len(axes) :
                      len2 = AxisOverlap2(boatCorners, islandPolygon, axes[i])

\* The least overlap was on a slanted edge normal of the polygon.
C7_Witness ==
    /\ pc = "done"
    /\ pre.heading = Heading(0, 1, 1)
    /\ Overlaps(boatCorners, islandPolygon)
    /\ ~result.null
    /\ result.x # Zero
    /\ result.z # Zero

-----------------------------------------------------------------------------
(* C11: one call of updateBoatPhysics applies, in this order, the angular   *)
(* acceleration, the angular drag, the heading update with the dragged      *)
(* angular velocity, the thrust along (sin, cos) of the updated heading,    *)
(* the speed clamp, the linear drag, and the position update with the       *)
(* velocity left by the drag.                                               *)
C11_StepOrder ==
    pc = "done" =>
        LET accelerated == RAdd(pre.angularVelocity,
                                RMul(Rat(input.turn * 5, 2), dt))
            dragged == RMul(accelerated, Rat(23, 25))
            thrust == RMul(Num(input.forward * 8), dt)
            thrusted == Vec(RAdd(pre.velocity.x, RMul(state.heading.sin, thrust)),
                            RAdd(pre.velocity.z, RMul(state.heading.cos, thrust)))
        IN  /\ state.angularVelocity = dragged
            /\ state.heading.turned = RAdd(pre.heading.turned, RMul(dragged, dt))
            /\ \E speed \in Sqrt(Len2(thrusted)) :
                  LET clamped == IF RGt(speed, Num(12))
                                 THEN Vec(RMul(RDiv(thrusted.x, speed), Num(12)),
                                          RMul(RDiv(thrusted.z, speed), Num(12)))
                                 ELSE thrusted
                  IN  state.velocity = VScale(clamped, Rat(49, 50))
            /\ state.position = VAdd(pre.position, VScale(state.velocity, dt))

\* A turning, drifting boat over the speed limit was turned to another
\* heading, thrusted, clamped, dragged and moved.
C11_Witness ==
    /\ pc = "done"
    /\ pre.angularVelocity = One
    /\ input = [forward |-> 1, turn |-> -1]
    /\ dt = Rat(1, 10)
    /\ pre.velocity = Pt(12, 16)
    /\ pre.heading = Heading(0, 1, 1)
    /\ state.heading.sin = Rat(4, 5)
    /\ state.position # pre.position

-----------------------------------------------------------------------------
(* A run of updateBoatPhysics under a held input: CruiseCalls calls from    *)
(* rest at the origin, heading 0.                                           *)

CruiseCalls == 60

RestAtOrigin ==
    [position |-> Pt(0, 0), velocity |-> Pt(0, 0),
     heading |-> Heading(0, 1, 1), angularVelocity |-> Zero]

CruiseInputs == { [forward |-> f, turn |-> 0] : f \in {-1, 0, 1} }

InitCruise ==
    /\ state = RestAtOrigin
    /\ pre = state
    /\ input \in CruiseInputs
    /\ dt = Rat(1, 60)
    /\ pc = "call"
    /\ colliders = << >>
    /\ boatCorners = << >>
    /\ result = NoMTV
    /\ IdleTriangulator
    /\ IdleGame

\* updateBoatPhysics(state, input, dt), once more
Cruise ==
    /\ pc = "call"
    /\ calls < CruiseCalls
    /\ pre' = state
    /\ \E heading \in TurnedHeadings(state, TurnedVelocity(state, input, dt), dt) :
         \E speed \in Sqrt(Len2(ThrustedVelocity(state, heading, input, dt))) :
            state' = RoundState(updateBoatPhysics(state, input, dt, heading, speed))
    /\ calls' = calls + 1
    /\ pc' = IF calls' = CruiseCalls THEN "done" ELSE "call"
    /\ UNCHANGED <<clock, lastTime, lastFrameTime, cameraState, portPolygon, atPort,
                   loading>>
    /\ UNCHANGED <<overlapVars, reelVars>>
    /\ UNCHANGED <<colliders, input, dt, boatCorners, islandPolygon, result,
                   indices, triangles, iterations>>

NextCruise == Cruise

SpecCruise == InitCruise /\ [][NextCruise]_vars

(* C12: from rest at the origin with heading 0 and angularVelocity 0, after *)
(* 60 calls of updateBoatPhysics with forward = 1, turn = 0 and dt = 1/60   *)
(* the boat has moved along +Z, has not moved along X, and its speed is     *)
(* strictly below MAX_SPEED.                                                *)
C12_CruiseForward ==
    (calls = 60 /\ input.forward = 1) =>
        /\ RGt(state.position.z, Zero)
        /\ state.position.x = Zero
        /\ RLt(Len2(state.velocity), Num(MAX_SPEED * MAX_SPEED))

\* The 60th call has returned with the boat under way.
C12_Witness ==
    /\ calls = 60
    /\ pc = "done"
    /\ input.forward = 1
    /\ RGt(state.velocity.z, Num(4))

-----------------------------------------------------------------------------
(* isAtPort as called by Game.updateTrapState.                              *)

MaxPortVerts == 4

PortPolygons ==
    UNION { [1..n -> GridPoints] : n \in 3..MaxPortVerts }
        \cup { << >>, Polygon(<< <<0, 0>>, <<2, 2>> >>) }

PortPoints == { Pt(x, z) : x \in -1..3, z \in -1..3 }

InitPort ==
    /\ portPolygon \in PortPolygons
    /\ \E p \in PortPoints \cup (IF portPolygon = << >> THEN {} ELSE { Center(portPolygon) }) :
          state = [InitialGameState EXCEPT !.position = p]
    /\ pre = state
    /\ atPort = FALSE
    /\ pc = "call"
    /\ input = NoInput
    /\ dt = Zero
    /\ colliders = << >>
    /\ boatCorners = << >>
    /\ result = NoMTV
    /\ IdleTriangulator
    /\ IdleCruise /\ IdleLoop /\ IdleCamera /\ IdleLoaders
    /\ IdleOverlap /\ IdleReel

\* Game.updateTrapState() at the position st.position: atPort, the nearest
\* trap and the mode of the reel button.
TrapState(st) ==
    /\ atPort' = (Len(portPolygon) > 0 /\ isAtPort(st.position, portPolygon))
    /\ nearTrapIndex' = NearestTrap(persistentState, st.position)
    /\ reelMode' = ReelButtonMode(atPort', nearTrapIndex', persistentState)

updateTrapState ==
    /\ pc = "call"
    /\ TrapState(state)
    /\ pc' = "done"
    /\ UNCHANGED <<calls, clock, lastTime, lastFrameTime, cameraState, portPolygon,
                   loading>>
    /\ UNCHANGED <<overlapVars, persistentState, storage, lobsterCount,
                   trapManager, presses>>
    /\ UNCHANGED <<state, pre, colliders, input, dt, boatCorners, islandPolygon,
                   result, indices, triangles, iterations>>

NextPort == updateTrapState

SpecPort == InitPort /\ [][NextPort]_vars

\* The point lies outside the bounding extent of the vertices.
OutsideExtent(p, polygon) ==
    \/ \A i \in 1..Len(polygon) : RLt(p.x, polygon[i].x)
    \/ \A i \in 1..Len(polygon) : RGt(p.x, polygon[i].x)
    \/ \A i \in 1..Len(polygon) : RLt(p.z, polygon[i].z)
    \/ \A i \in 1..Len(polygon) : RGt(p.z, polygon[i].z)

\* A convex polygon of nonzero area: a simple polygon that never turns
\* against its winding (a vertex on a straight side is allowed).
IsConvexWithArea(polygon) ==
    /\ Len(polygon) >= 3
    /\ IsSimplePolygon(polygon)
    /\ getPolygonArea(polygon) # Zero
    /\ \A i \in 1..Len(polygon) :
          RSign(Cross(polygon[i], polygon[Succ(polygon, i)],
                      polygon[Succ(polygon, Succ(polygon, i))]))
              \in { 0, RSign(getPolygonArea(polygon)) }

(* C13: isAtPort is false for every point outside the bounding extent of    *)
(* the polygon, and true for the vertex mean of every convex polygon with   *)
(* at least 3 vertices and nonzero area.                                    *)
C13_ExtentAndCentroid ==
    pc = "done" =>
        /\ OutsideExtent(state.position, portPolygon) => ~atPort
        /\ (IsConvexWithArea(portPolygon) /\ state.position = Center(portPolygon))
              => atPort

\* The vertex mean of a convex quadrilateral, off the grid, was found at port.
C13_Witness ==
    /\ pc = "done"
    /\ portPolygon = Polygon(<< <<0, 0>>, <<2, 0>>, <<2, 1>>, <<0, 2>> >>)
    /\ state.position = Vec(One, Rat(3, 4))
    /\ atPort

\* A point left of the extent, level with the polygon, was found off port.
C13_WitnessOutside ==
    /\ pc = "done"
    /\ portPolygon = Polygon(<< <<0, 0>>, <<2, 0>>, <<2, 1>>, <<0, 2>> >>)
    /\ state.position = Pt(-1, 1)
    /\ ~atPort

-----------------------------------------------------------------------------
(* The camera under view toggles (the V key, the view button) and the       *)
(* updateCamera calls of the ticks.  pc names the handler that ran last.    *)

MaxUpdates == 2

CameraPoses ==
    { InitialGameState,
      [position |-> Pt(3, 5), velocity |-> Pt(3, 4),
       heading |-> Heading(3, 4, 5), angularVelocity |-> Zero] }

CameraDeltaTimes == { Zero, Rat(1, 60), Rat(1, 45), Rat(1, 10) }

\* Values of getBoatBob(time, velocity).
BoatBobs == { Rat(1, 10), Rat(3, 10), Rat(1, 2) }

InitCamera ==
    /\ cameraState = createCameraState
    /\ state \in CameraPoses
    /\ pre = state
    /\ pc = "new"
    /\ input = NoInput
    /\ dt = Zero
    /\ colliders = << >>
    /\ boatCorners = << >>
    /\ result = NoMTV
    /\ IdleTriangulator
    /\ IdleCruise /\ IdleLoop /\ IdlePort /\ IdleLoaders
    /\ IdleOverlap /\ IdleReel

\* onToggleView / keydown KeyV: toggleViewMode(this.cameraState)
ToggleView ==
    /\ cameraState' = toggleViewMode(cameraState)
    /\ pc' = "toggled"
    /\ UNCHANGED <<calls, clock, lastTime, lastFrameTime, portPolygon, atPort,
                   loading>>
    /\ UNCHANGED <<overlapVars, reelVars>>
    /\ UNCHANGED <<state, pre, colliders, input, dt, boatCorners, islandPolygon,
                   result, indices, triangles, iterations>>

\* updateCamera(this.camera, this.cameraState, this.gameState, boatY, dt)
UpdateCamera ==
    /\ calls < MaxUpdates
    /\ \E delta \in CameraDeltaTimes, boatY \in BoatBobs :
         \E smoothFactor \in SmoothFactors(delta) :
            /\ dt' = delta
            /\ cameraState' =
                 RoundCamera(updateCamera(cameraState, state, boatY, smoothFactor))
    /\ calls' = calls + 1
    /\ pc' = "updated"
    /\ UNCHANGED <<clock, lastTime, lastFrameTime, portPolygon, atPort, loading>>
    /\ UNCHANGED <<overlapVars, reelVars>>
    /\ UNCHANGED <<state, pre, colliders, input, boatCorners, islandPolygon,
                   result, indices, triangles, iterations>>

NextCamera == ToggleView \/ UpdateCamera

SpecCamera == InitCamera /\ [][NextCamera]_vars

(* C16: toggleViewMode changes only viewMode: currentPosition and           *)
(* currentLookAt are after the toggle what they were before it.             *)
C16_ToggleKeepsPose ==
    [][ToggleView =>
          /\ cameraState'.currentPosition = cameraState.currentPosition
          /\ cameraState'.currentLookAt = cameraState.currentLookAt]_vars

\* The view was toggled to cab while the smoothed pose was on its way.
C16_Witness ==
    /\ pc = "toggled"
    /\ cameraState.viewMode = "cab"
    /\ cameraState.currentPosition # createCameraState.currentPosition
    /\ cameraState.currentPosition # CabTargets(state, Rat(3, 10)).position

(* C17 as stated: toggling is idempotent, a second toggleViewMode leaves    *)
(* the view mode the first one produced.                                    *)
C17_ToggleIdempotent ==
    pc = "toggled" => toggleViewMode(cameraState).viewMode = cameraState.viewMode

(* C17 amended: toggling is a flip between 'overhead' and 'cab': one        *)
(* toggleViewMode yields the other variant and a second one restores the    *)
(* camera state the first one started from.                                 *)
C17_ToggleIsInvolution ==
    [][ToggleView =>
          /\ cameraState.viewMode \in {"overhead", "cab"}
          /\ cameraState'.viewMode \in {"overhead", "cab"} \ {cameraState.viewMode}
          /\ toggleViewMode(cameraState') = cameraState]_vars

\* The view was toggled back to overhead.
C17_Witness ==
    /\ pc = "toggled"
    /\ cameraState.viewMode = "overhead"

\* The target of the view mode: the cab target in 'cab', else the overhead one.
TargetOfMode(mode, st, boatY) ==
    IF mode = "cab" THEN CabTargets(st, boatY) ELSE OverheadTargets(st)

-----------------------------------------------------------------------------
(* The velocity correction of handleIslandCollisions, read off a call on a  *)
(* single collider.                                                         *)

\* The call ran on one collider of at least 3 vertices.
CollidedWithOne == pc = "done" /\ Len(colliders) = 1 /\ Len(colliders[1].polygon) >= 3

\* The value getConcaveCollisionMTV returned to that call.
FoundMTV == getConcaveCollisionMTV(getBoatCorners(pre), colliders[1].polygon)

MTVLen2(mtv) == RAdd(RSq(mtv.x), RSq(mtv.z))

\* The component of v across the direction of mtv, times the length of mtv.
Tangential(v, mtv) == RSub(RMul(v.z, mtv.x), RMul(v.x, mtv.z))

\* The component of v along the direction of mtv, times the length of mtv.
Normal(v, mtv) == RAdd(RMul(v.x, mtv.x), RMul(v.z, mtv.z))

(* C18: when the MTV found is longer than 0.001, a velocity whose component *)
(* along the MTV was negative ends with that component 0 and the component  *)
(* across it multiplied by 0.7; a velocity whose component along the MTV    *)
(* was not negative ends multiplied by 0.7 as a whole; in both cases no     *)
(* component of the velocity points against the MTV.                        *)
C18_VelocityLeavesObstacle ==
    CollidedWithOne =>
        Let(FoundMTV, LAMBDA mtv :
            (~mtv.null /\ RGt(MTVLen2(mtv), Rat(1, 1000000))) =>
                /\ RGe(Normal(state.velocity, mtv), Zero)
                /\ IF RLt(Normal(pre.velocity, mtv), Zero)
                   THEN /\ Normal(state.velocity, mtv) = Zero
                        /\ Tangential(state.velocity, mtv)
                              = RMul(Rat(7, 10), Tangential(pre.velocity, mtv))
                   ELSE state.velocity = VScale(pre.velocity, Rat(7, 10)))

\* A boat sliding into the square at an angle lost the component into it and
\* kept 0.7 of the component along its side.
C18_Witness ==
    /\ CollidedWithOne
    /\ colliders[1].polygon = Square
    /\ pre.position = Vec(Rat(-187, 250), Num(5))
    /\ pre.velocity = Pt(2, 1)
    /\ state.velocity = Vec(Zero, Rat(7, 10))

\* A boat moving away from the side it was pushed out of kept its direction.
C18_WitnessAway ==
    /\ CollidedWithOne
    /\ ~FoundMTV.null
    /\ RGt(Normal(pre.velocity, FoundMTV), Zero)
    /\ state.velocity = Vec(Rat(-7, 5), Rat(-7, 10))

(* C19: when the MTV found has magnitude at most 0.001, it is added to the  *)
(* position and the velocity is left as it was.                             *)
C19_ShortMTVKeepsVelocity ==
    CollidedWithOne =>
        Let(FoundMTV, LAMBDA mtv :
            (~mtv.null /\ RLe(MTVLen2(mtv), Rat(1, 1000000))) =>
                /\ state.position = VAdd(pre.position, Vec(mtv.x, mtv.z))
                /\ state.velocity = pre.velocity)

\* A footprint 0.001 into the square was moved out by 0.001 at full speed.
C19_Witness ==
    /\ CollidedWithOne
    /\ colliders[1].polygon = Square
    /\ pre.position = Vec(Rat(-749, 1000), Num(5))
    /\ state.position = Vec(Rat(-3, 4), Num(5))
    /\ state.velocity = Pt(2, 1)

(* C20: getConcaveCollisionMTV returns null exactly when getCollisionMTV is *)
(* null for every triangle of the triangulation; otherwise it returns the   *)
(* MTV of a colliding triangle that is no longer than that of any colliding *)
(* triangle and strictly shorter than that of every colliding triangle      *)
(* emitted before it.                                                       *)
C20_ShortestTriangleMTV ==
    CollidedWithOne =>
        Let(<< FoundMTV,
               Let(triangulatePolygon(colliders[1].polygon),
                   LAMBDA tris : [i \in 1..Len(tris) |->
                                     getCollisionMTV(getBoatCorners(pre), tris[i])]) >>,
            LAMBDA found :
                LET mtv == found[1]
                    mtvs == found[2]
                    hits == { i \in 1..Len(mtvs) : ~mtvs[i].null }
                IN  /\ mtv.null <=> hits = {}
                    /\ ~mtv.null =>
                          \E i \in hits :
                              /\ mtv = mtvs[i]
                              /\ \A j \in hits : RLe(MTVLen2(mtvs[i]), MTVLen2(mtvs[j]))
                              /\ \A j \in hits :
                                    j < i => RLt(MTVLen2(mtvs[i]), MTVLen2(mtvs[j])))

\* Both triangles of the square collided and the shorter MTV, that of the
\* second one, was applied.
C20_Witness ==
    /\ CollidedWithOne
    /\ colliders[1].polygon = Square
    /\ pre.position = Pt(3, 5)
    /\ pre.heading = Heading(0, 1, 1)
    /\ state.position = Vec(Rat(23, 8), Rat(39, 8))

-----------------------------------------------------------------------------
(* The game loop: the end of the constructor, the animation frames, and the *)
(* completions of the island and port loaders, in any order.  pc names the  *)
(* handler that ran last: "new" before the constructor has finished, "tick" *)
(* for a frame that ran update, "skip" for a frame that returned early,     *)
(* "loaded" for a loader callback.                                          *)

TARGET_FPS == 45
FRAME_INTERVAL == Rat(1000, TARGET_FPS)
DT_CAP == Rat(1, 10)

MaxTicks == 3
MaxIslands == 2

\* a % b of two numbers, a >= 0 and b > 0
RMod(a, b) == RSub(a, RMul(b, Num(Floor(RDiv(a, b)))))

\* islandColliders.push(collider), keeping only the collider pushed.
PushOnly(cs, collider) == << collider >>

\* this.islandColliders.push(collider)
Push(cs, collider) == Append(cs, collider)

\* The hit polygons the island files resolve to.
IslandPolygon(i) ==
    CASE i = 1 -> Polygon(<< <<-15, -4>>, <<-3, -4>>, <<-3, 1>>, <<-15, 1>> >>)
      [] i = 2 -> Square
      [] i = 3 -> << >>
      [] OTHER -> LShape

\* The polygon the port file resolves to.
PortZone == Polygon(<< <<-10, -6>>, <<-6, -6>>, <<-6, -2>>, <<-10, -2>> >>)

\* Readings of performance.now() in ms; a reading is never below an earlier one.
GameTimes == { Zero, Num(25), Num(50), Num(200) }
Readings(t) == { u \in GameTimes : RGe(u, t) }

\* The keys held at a tick: none, or forward.
GameInputs == { NoInput, [forward |-> 1, turn |-> 0] }

InitGame ==
    /\ state = InitialGameState
    /\ pre = state
    /\ colliders = << >>
    /\ loading = 1..MaxIslands
    /\ cameraState = createCameraState
    /\ portPolygon = << >>
    /\ atPort = FALSE
    /\ clock = Zero
    /\ lastTime = Zero
    /\ lastFrameTime = Zero
    /\ calls = 0
    /\ input = NoInput
    /\ dt = Zero
    /\ pc = "new"
    /\ boatCorners = << >>
    /\ result = NoMTV
    /\ IdleTriangulator
    /\ IdleOverlap /\ IdleReel

\* Game.update(dt) handling the collisions before it updates the physics.
UpdateCollideFirst(delta, ins, bobs) ==
    \E in \in ins :
      \E collided \in { IF Len(colliders) > 0
                        THEN RoundState(handleIslandCollisions(state, colliders))
                        ELSE state } :
        \E heading \in TurnedHeadings(collided, TurnedVelocity(collided, in, delta), delta) :
          \E speed \in Sqrt(Len2(ThrustedVelocity(collided, heading, in, delta))) :
            \E moved \in { RoundState(updateBoatPhysics(collided, in, delta, heading, speed)) } :
              \E boatY \in bobs, smoothFactor \in SmoothFactors(delta) :
                /\ input' = in
                /\ pre' = state
                /\ state' = moved
                /\ cameraState' =
                     RoundCamera(updateCamera(cameraState, moved, boatY, smoothFactor))
                /\ trapManager' = TrapManagerUpdate(trapManager, persistentState)
                /\ TrapState(moved)
                /\ calls' = calls + 1

\* Game.update(dt), getInput() returning one of ins and getBoatBob one of bobs.
UpdateFrom(delta, ins, bobs) ==
    \E in \in ins :
      \E heading \in TurnedHeadings(state, TurnedVelocity(state, in, delta), delta) :
        \E speed \in Sqrt(Len2(ThrustedVelocity(state, heading, in, delta))) :
          \E moved \in { RoundState(updateBoatPhysics(state, in, delta, heading, speed)) } :
            \E collided \in { IF Len(colliders) > 0
                              THEN RoundState(handleIslandCollisions(moved, colliders))
                              ELSE moved } :
              \E boatY \in bobs, smoothFactor \in SmoothFactors(delta) :
                /\ input' = in
                /\ pre' = state
                /\ state' = collided
                /\ cameraState' =
                     RoundCamera(updateCamera(cameraState, collided, boatY, smoothFactor))
                /\ trapManager' = TrapManagerUpdate(trapManager, persistentState)
                /\ TrapState(collided)
                /\ calls' = calls + 1

\* Game.update(dt)
Update(delta) == UpdateFrom(delta, GameInputs, BoatBobs)

\* The body of Game.loop entered with this.lastTime = last and with
\* performance.now() returning now.
LoopFrom(last, now, ins, bobs) ==
    /\ clock' = now
    /\ IF RLt(RSub(now, lastFrameTime), FRAME_INTERVAL)
       THEN /\ lastTime' = last
            /\ pc' = "skip"
            /\ UNCHANGED <<state, pre, input, dt, calls, lastFrameTime, cameraState, atPort,
                           nearTrapIndex, reelMode, trapManager>>
       ELSE /\ lastFrameTime' = RSub(now, RMod(RSub(now, lastFrameTime), FRAME_INTERVAL))
            /\ dt' = RMin(RDiv(RSub(now, last), Num(1000)), DT_CAP)
            /\ lastTime' = now
            /\ pc' = "tick"
            /\ UpdateFrom(RMin(RDiv(RSub(now, last), Num(1000)), DT_CAP), ins, bobs)
    /\ UNCHANGED <<colliders, loading, portPolygon, boatCorners, islandPolygon, result,
                   indices, triangles, iterations>>
    /\ UNCHANGED <<overlapVars, persistentState, storage, lobsterCount, presses>>

Loop(last, now) == LoopFrom(last, now, GameInputs, BoatBobs)

\* The end of the constructor: this.lastTime = performance.now(); this.loop()
Construct ==
    /\ pc = "new"
    /\ \E started \in Readings(clock) : \E now \in Readings(started) : Loop(started, now)

\* An animation frame: this.loop()
Frame ==
    /\ pc # "new"
    /\ calls < MaxTicks
    /\ \E now \in Readings(clock) : Loop(lastTime, now)

\* island.collider.then((collider) => this.islandColliders.push(collider))
IslandLoaded ==
    /\ pc # "new"
    /\ \E i \in loading :
         /\ colliders' = Push(colliders, [polygon |-> IslandPolygon(i)])
         /\ loading' = loading \ {i}
    /\ pc' = "loaded"
    /\ UNCHANGED <<state, pre, input, dt, calls, clock, lastTime, lastFrameTime,
                   cameraState, portPolygon, atPort, boatCorners, islandPolygon,
                   result, indices, triangles, iterations>>
    /\ UNCHANGED <<overlapVars, reelVars>>

\* loadPortZone().then((polygon) => this.portPolygon = polygon)
PortLoaded ==
    /\ pc # "new"
    /\ portPolygon = << >>
    /\ portPolygon' = PortZone
    /\ pc' = "loaded"
    /\ UNCHANGED <<state, pre, input, dt, calls, clock, lastTime, lastFrameTime,
                   cameraState, colliders, loading, atPort, boatCorners,
                   islandPolygon, result, indices, triangles, iterations>>
    /\ UNCHANGED <<overlapVars, reelVars>>

NextGame == Construct \/ Frame \/ IslandLoaded \/ PortLoaded

SpecGame == InitGame /\ [][NextGame]_vars

(* C14: every tick passes to update a delta time dt with 0 < dt <= 0.1,    *)
(* the first frame and a frame after a long pause included.                 *)
C14_DeltaTimeInRange ==
    pc = "tick" => RGt(dt, Zero) /\ RLe(dt, Rat(1, 10))

(* C15: in every step of the game, whatever the order of loader completions *)
(* and ticks: the collider list keeps every collider it has, unchanged and  *)
(* in place; a loader completion appends exactly one collider and nothing   *)
(* else changes the list; and a tick that finds the list empty leaves the   *)
(* state that updateBoatPhysics alone produces and moves the camera towards *)
(* it.                                                                      *)
C15_CollidersAccumulate ==
    [][ /\ Len(colliders') >= Len(colliders)
        /\ \A i \in 1..Len(colliders) : colliders'[i] = colliders[i]
        /\ loading' # loading =>
              /\ Len(colliders') = Len(colliders) + 1
              /\ Cardinality(loading') = Cardinality(loading) - 1
        /\ loading' = loading => colliders' = colliders
        /\ (calls' = calls + 1 /\ colliders = << >>) =>
              /\ \E heading \in TurnedHeadings(state, TurnedVelocity(state, input', dt'), dt') :
                   \E speed \in Sqrt(Len2(ThrustedVelocity(state, heading, input', dt'))) :
                      state' = RoundState(updateBoatPhysics(state, input', dt', heading, speed))
              /\ \E boatY \in BoatBobs, smoothFactor \in SmoothFactors(dt') :
                   cameraState' =
                      RoundCamera(updateCamera(cameraState, state', boatY, smoothFactor))
      ]_vars

\* The first tick ran without a collider, moved boat and camera, and both
\* island loaders completed after it.
C15_Witness ==
    /\ pc = "loaded"
    /\ calls = 1
    /\ Len(colliders) = 2
    /\ colliders[1].polygon = Square
    /\ state.velocity # Pt(0, 0)
    /\ state.position # InitialGameState.position
    /\ cameraState # createCameraState

-----------------------------------------------------------------------------
(* getOverlap (collision.ts) as a machine: one call on two intervals.       *)

MaxEnd == 4

\* The projections of two polygons on an axis: min <= max, the two being
\* equal when the polygon lies across the axis.
Intervals ==
    { [min |-> Num(lo), max |-> Num(hi)] : lo \in 0..MaxEnd, hi \in 0..MaxEnd }
        \ { i \in [min : { Num(n) : n \in 0..MaxEnd }, max : { Num(n) : n \in 0..MaxEnd }] :
               RLt(i.max, i.min) }

InitOverlap ==
    /\ projections \in [a : Intervals, b : Intervals]
    /\ overlapValue = << >>
    /\ pc = "call"
    /\ state = InitialGameState
    /\ pre = state
    /\ colliders = << >>
    /\ input = NoInput
    /\ dt = Zero
    /\ boatCorners = << >>
    /\ result = NoMTV
    /\ IdleTriangulator
    /\ IdleCruise /\ IdleLoop /\ IdleCamera /\ IdlePort /\ IdleLoaders /\ IdleReel

\* getOverlap(a, b)
CallOverlap ==
    /\ pc = "call"
    /\ overlapValue' = << getOverlap(projections.a, projections.b) >>
    /\ pc' = "done"
    /\ UNCHANGED <<state, pre, colliders, input, dt, boatCorners, islandPolygon,
                   result, indices, triangles, iterations>>
    /\ UNCHANGED <<calls, clock, lastTime, lastFrameTime, cameraState, portPolygon,
                   atPort, loading, projections, reelVars>>

NextOverlap == CallOverlap

SpecOverlap == InitOverlap /\ [][NextOverlap]_vars

\* The length of the intersection of two intervals, 0 when they share at
\* most one point.
Meet(a, b) ==
    LET lo == RMax(a.min, b.min)
        hi == RMin(a.max, b.max)
    IN  IF RLt(lo, hi) THEN RSub(hi, lo) ELSE Zero

\* No point of one interval is inside the other: they are apart or touch
\* end to end.
Apart(a, b) == RLe(a.max, b.min) \/ RLe(b.max, a.min)

Shifted(a, s) == [min |-> RAdd(a.min, s), max |-> RAdd(a.max, s)]

\* The least distance by which interval a has to move, either way, to be
\* apart from b.
LeastShift(a, b) ==
    CHOOSE s \in 0..(2 * MaxEnd) :
        /\ Apart(Shifted(a, Num(s)), b) \/ Apart(Shifted(a, Num(-s)), b)
        /\ \A t \in 0..(s - 1) :
              ~(Apart(Shifted(a, Num(t)), b) \/ Apart(Shifted(a, Num(-t)), b))

\* One interval lies inside the other and shares neither end with it.
StrictlyInside(a, b) ==
    \/ RLt(a.min, b.min) /\ RLt(b.max, a.max)
    \/ RLt(b.min, a.min) /\ RLt(a.max, b.max)

\* C21 as stated: getOverlap returns 0 for two intervals that do not overlap
\* and otherwise the positive length of the intersection of the two
\* intervals, one contained in the other included.
C21_OverlapIsIntersection ==
    pc = "done" =>
        /\ overlapValue[1] = Meet(projections.a, projections.b)
        /\ ~Apart(projections.a, projections.b) => RGt(overlapValue[1], Zero)

\* C21 as amended: getOverlap returns 0 exactly when the intervals are apart
\* or touch end to end, and otherwise the positive least distance by which
\* one interval has to move to be apart from the other; that distance is the
\* length of the intersection unless one interval lies strictly inside the
\* other, where it is larger.
C21_OverlapIsLeastShift ==
    pc = "done" =>
        LET a == projections.a
            b == projections.b
        IN  /\ overlapValue[1] = Num(LeastShift(a, b))
            /\ (overlapValue[1] = Zero) <=> Apart(a, b)
            /\ RGe(overlapValue[1], Zero)
            /\ IF StrictlyInside(a, b)
               THEN RGt(overlapValue[1], Meet(a, b))
               ELSE overlapValue[1] = Meet(a, b)

\* getOverlap has returned for an interval strictly inside the other.
C21_Witness ==
    /\ pc = "done"
    /\ StrictlyInside(projections.a, projections.b)
    /\ RGt(overlapValue[1], Zero)

\* getOverlap has returned for two intervals that touch end to end.
C21_WitnessTouching ==
    /\ pc = "done"
    /\ projections.a.max = projections.b.min
    /\ RLt(projections.a.min, projections.a.max)
    /\ overlapValue[1] = Zero

-----------------------------------------------------------------------------
(* The game with its buttons: animation frames and presses of the reel      *)
(* button (SpecReel) and of the view button too (SpecButtons), in any       *)
(* order.  The machine starts where the                                     *)
(* constructor's call of loop has returned early, the first island and      *)
(* (perhaps) the port have loaded and the second island is still loading.   *)
(* pc names the handler that ran last, for a press of the reel button the   *)
(* branch it took: "deposit", "pickup", "drop", or "none" when pickupTrap   *)
(* or dropTrap returned at its first test.                                  *)

MaxPresses == 3
MaxReelTicks == 2
MaxTrapTicks == 3

\* Readings of Date.now() in ms, counted from the first; the wall clock may
\* be set back between two readings.
DateReadings == { 0, 200000, 800000 }

\* Values of Math.random(): 0 <= random < 1
Randoms == { Zero, Rat(1, 2), Rat(99, 100) }

\* A port zone around the place the boat starts at and the shore of the
\* island next to it.
Harbour == Polygon(<< <<-10, -2>>, <<-6, -2>>, <<-6, 4>>, <<-10, 4>> >>)

InitReel ==
    /\ state = InitialGameState
    /\ pre = state
    /\ colliders = << [polygon |-> IslandPolygon(1)] >>
    /\ loading = {2}
    /\ portPolygon \in { << >>, Harbour }
    /\ atPort = FALSE
    /\ cameraState = createCameraState
    /\ input = NoInput
    /\ dt = Zero
    /\ pc = "loaded"
    /\ boatCorners = << >>
    /\ result = NoMTV
    /\ IdleTriangulator
    /\ IdleCruise /\ IdleLoop /\ IdleOverlap /\ IdleReel

\* savePersistentState(this.persistentState)
savePersistentState(ps) == << ps >>

\* this.depositLobsters()
DepositLobsters ==
    /\ persistentState' = depositLobsters(persistentState)
    /\ IF TotalFrom(persistentState, 1) > 0
       THEN /\ storage' = savePersistentState(persistentState')
            /\ lobsterCount' = updateLobsterCount(persistentState')
       ELSE UNCHANGED <<storage, lobsterCount>>
    /\ pc' = "deposit"

\* this.pickupTrap(index)
PickupTrap(index, now, random) ==
    /\ persistentState' = pickupTrap(persistentState, index, now, random)
    /\ IF ~persistentState.traps[index].inWater
       THEN /\ pc' = "none"
            /\ UNCHANGED <<storage, lobsterCount>>
       ELSE /\ storage' = savePersistentState(persistentState')
            /\ lobsterCount' = updateLobsterCount(persistentState')
            /\ pc' = "pickup"

\* this.dropTrap()
DropTrap(now) ==
    IF FindOnBoat(persistentState, 1) = 0
    THEN /\ pc' = "none"
         /\ UNCHANGED <<persistentState, storage, lobsterCount>>
    ELSE /\ persistentState' = dropTrap(persistentState, state, now)
         /\ storage' = savePersistentState(persistentState')
         /\ pc' = "drop"
         /\ UNCHANGED lobsterCount

\* onReelToggle: this.handleReelToggle().  The listener of touchend calls it
\* whatever the mode of the button.
ReelToggle ==
    /\ pc # "new"
    /\ presses < MaxPresses
    /\ presses' = presses + 1
    /\ \E now \in DateReadings, random \in Randoms :
         IF atPort /\ hasLobstersOnBoat(persistentState) THEN DepositLobsters
         ELSE IF nearTrapIndex # 0 THEN PickupTrap(nearTrapIndex, now, random)
         ELSE DropTrap(now)
    /\ UNCHANGED <<state, pre, colliders, input, dt, boatCorners, islandPolygon,
                   result, indices, triangles, iterations>>
    /\ UNCHANGED <<calls, clock, lastTime, lastFrameTime, cameraState, portPolygon,
                   atPort, loading, overlapVars, nearTrapIndex, reelMode, trapManager>>

\* An animation frame at the next reading of performance.now(), the boat
\* bobbing at one height.
ReelFrameWithin(ticks) ==
    /\ pc # "new"
    /\ calls < ticks
    /\ \E now \in Readings(clock) \ { clock } :
         /\ \A u \in Readings(clock) \ { clock } : RLe(now, u)
         /\ LoopFrom(lastTime, now, GameInputs, { Rat(3, 10) })

ReelFrame == ReelFrameWithin(MaxReelTicks)

\* The same frame in the game of the traps, which runs a tick longer.
TrapFrame == ReelFrameWithin(MaxTrapTicks)

NextReel == TrapFrame \/ ReelToggle

SpecReel == InitReel /\ [][NextReel]_vars

NextButtons == ReelFrame \/ ReelToggle \/ ToggleView

\* The game with its buttons starts with the port zone loaded.
InitButtons == InitReel /\ portPolygon = Harbour

SpecButtons == InitButtons /\ [][NextButtons]_vars

(* C22: in every step of the game with its buttons, the pose (position,     *)
(* velocity, heading, angularVelocity) changes in a tick only, where it     *)
(* becomes the pose updateBoatPhysics and then handleIslandCollisions, once *)
(* each, make of it, and updateCamera moves the camera towards that pose;   *)
(* a press of the reel button (drop, pickup, deposit) or of the view button *)
(* leaves the pose as it is.                                                *)
C22_PoseWrittenByTickOnly ==
    [][ /\ pc' \in { "drop", "pickup", "deposit", "none", "toggled", "skip" } =>
              state' = state
        /\ state' # state => pc' = "tick" /\ calls' = calls + 1
        /\ calls' = calls + 1 =>
              /\ pre' = state
              /\ \E heading \in TurnedHeadings(state, TurnedVelocity(state, input', dt'), dt') :
                   \E speed \in Sqrt(Len2(ThrustedVelocity(state, heading, input', dt'))) :
                      \E moved \in { RoundState(updateBoatPhysics(state, input', dt', heading, speed)) } :
                         state' = IF Len(colliders) > 0
                                  THEN RoundState(handleIslandCollisions(moved, colliders))
                                  ELSE moved
              /\ \E smoothFactor \in SmoothFactors(dt') :
                   cameraState' =
                      RoundCamera(updateCamera(cameraState, state', Rat(3, 10), smoothFactor))
      ]_vars

\* A tick in which the island pushed the boat has been followed by a drop
\* of a trap and a press of the view button.
C22_Witness ==
    /\ pc = "toggled"
    /\ calls >= 1
    /\ presses >= 1
    /\ state.position # InitialGameState.position
    /\ persistentState.traps[1].inWater

(* C25: the lobster total shown to the player, depositedLobsters plus the   *)
(* lobsterCount of the traps on the boat, never decreases in a step of the  *)
(* game: a press of the reel button (drop, pickup, deposit) or a tick.      *)
C25_TotalNeverDecreases ==
    [][updateLobsterCount(persistentState') >= updateLobsterCount(persistentState)]_vars

(* C26: a press of the reel button performs the action of the mode the      *)
(* button displays at that moment: a deposit in 'deposit', a pickup in      *)
(* 'pickup', a drop in 'drop', and no change of the persistent state, the   *)
(* storage or the count in 'disabled'; whatever the interleaving of presses *)
(* and ticks.                                                               *)
C26_PressMatchesMode ==
    [][(presses' = presses + 1) =>
          /\ reelMode = "deposit" => pc' = "deposit"
          /\ reelMode = "pickup" => pc' = "pickup"
          /\ reelMode = "drop" => pc' = "drop"
          /\ reelMode = "disabled" =>
                /\ pc' = "none"
                /\ UNCHANGED <<persistentState, storage, lobsterCount>>]_vars

\* The press calls pickupTrap on nearTrapIndex, and that trap is on the boat.
StalePickup ==
    /\ ~(atPort /\ hasLobstersOnBoat(persistentState))
    /\ nearTrapIndex # 0
    /\ ~persistentState.traps[nearTrapIndex].inWater

(* C27: a trap is not picked up twice without a drop in between.  A press   *)
(* that reaches pickupTrap with a stale nearTrapIndex, the trap being on    *)
(* the boat already, changes no trap, no count and saves nothing; and a     *)
(* pickup takes a trap that was in the water and leaves the others alone.   *)
C27_NoSecondPickup ==
    [][(presses' = presses + 1) =>
          /\ StalePickup =>
                /\ pc' = "none"
                /\ UNCHANGED <<persistentState, storage, lobsterCount>>
          /\ pc' = "pickup" =>
                /\ persistentState.traps[nearTrapIndex].inWater
                /\ ~persistentState'.traps[nearTrapIndex].inWater
                /\ \A i \in 1..TRAP_COUNT \ {nearTrapIndex} :
                      persistentState'.traps[i] = persistentState.traps[i]]_vars

\* A second press before the next tick found the trap on the boat with its
\* catch and left it so.
C27_Witness ==
    /\ pc = "none"
    /\ nearTrapIndex # 0
    /\ ~persistentState.traps[nearTrapIndex].inWater
    /\ persistentState.traps[nearTrapIndex].lobsterCount > 0
    /\ lobsterCount = persistentState.traps[nearTrapIndex].lobsterCount

(* C28: from the initial persistent state and under any presses and ticks   *)
(* there are exactly 8 traps, and a trap has a position and a droppedAt     *)
(* timestamp exactly when it is in the water; a trap on the boat has        *)
(* neither.                                                                 *)
C28_TrapsWellFormed ==
    /\ Len(persistentState.traps) = 8
    /\ \A i \in 1..Len(persistentState.traps) :
          /\ persistentState.traps[i].inWater =>
                /\ persistentState.traps[i].position # << >>
                /\ persistentState.traps[i].droppedAt # << >>
          /\ ~persistentState.traps[i].inWater =>
                /\ persistentState.traps[i].position = << >>
                /\ persistentState.traps[i].droppedAt = << >>

\* Two traps were dropped and the first of them was picked up again.
C28_Witness ==
    /\ pc = "pickup"
    /\ ~persistentState.traps[1].inWater
    /\ persistentState.traps[2].inWater
    /\ persistentState.traps[2].position # << >>
    /\ storage = << persistentState >>

(* C29: the lobsterCount pickupTrap assigns is an integer from 0 to         *)
(* MAX_LOBSTERS, and for a trap picked up before TRAP_MATURE_TIME has       *)
(* elapsed it is at most floor(MAX_LOBSTERS * elapsed / TRAP_MATURE_TIME),  *)
(* whatever Date.now() and Math.random() return.                            *)
C29_CatchInRange ==
    [][(presses' = presses + 1 /\ pc' = "pickup") =>
          /\ persistentState'.traps[nearTrapIndex].lobsterCount \in 0..MAX_LOBSTERS
          /\ \A now \in DateReadings, random \in Randoms :
                (/\ persistentState' =
                       pickupTrap(persistentState, nearTrapIndex, now, random)
                 /\ Elapsed(persistentState.traps[nearTrapIndex], now) < TRAP_MATURE_TIME)
                => persistentState'.traps[nearTrapIndex].lobsterCount
                      <= Floor(Rat(MAX_LOBSTERS
                                     * Elapsed(persistentState.traps[nearTrapIndex], now),
                                   TRAP_MATURE_TIME))]_vars

-----------------------------------------------------------------------------
(* The trap meshes: the three loads of TrapManager.loadAssets complete in   *)
(* any order among the frames and the presses of the game of the traps.     *)

InitTraps == InitReel /\ portPolygon = << >>

\* The callback of loader.load for one asset: the template is set, then
\* onLoaded()
AssetLoaded ==
    /\ \E asset \in Assets \ trapManager.templates :
         trapManager' = onLoaded([trapManager EXCEPT !.templates = @ \cup {asset}])
    /\ pc' = "asset"
    /\ UNCHANGED <<state, pre, colliders, input, dt, boatCorners, islandPolygon,
                   result, indices, triangles, iterations>>
    /\ UNCHANGED <<calls, clock, lastTime, lastFrameTime, cameraState, portPolygon,
                   atPort, loading, overlapVars, persistentState, nearTrapIndex,
                   reelMode, storage, lobsterCount, presses>>

NextTraps == ReelFrame \/ ReelToggle \/ AssetLoaded

SpecTraps == InitTraps /\ [][NextTraps]_vars

(* C30: in whatever order the three trap assets finish loading, the 8 mesh  *)
(* sets are created once, in the step in which the last of the three has    *)
(* loaded and not before, and an update call made before that changes       *)
(* nothing of the TrapManager.                                              *)
C30_MeshesCreatedOnce ==
    [][/\ Len(trapManager'.meshes) =
            (IF trapManager'.templates = Assets THEN TRAP_COUNT ELSE 0)
       /\ trapManager'.loaded = (trapManager'.templates = Assets)
       /\ Len(trapManager'.meshes) # Len(trapManager.meshes) =>
             /\ pc' = "asset"
             /\ trapManager.meshes = << >>
             /\ trapManager.templates # Assets
       /\ (pc' = "tick" /\ ~trapManager.loaded) => trapManager' = trapManager]_vars

\* All three assets have loaded, and an update after that shows the buoy of
\* a trap dropped before and hides its cage.
C30_Witness ==
    /\ pc = "tick"
    /\ trapManager.loaded
    /\ trapManager.loadedCount = 3
    /\ Len(trapManager.meshes) = TRAP_COUNT
    /\ persistentState.traps[1].inWater
    /\ trapManager.meshes[1].buoy
    /\ ~trapManager.meshes[1].trap
    /\ ~trapManager.meshes[2].buoy

-----------------------------------------------------------------------------
(* A voyage: the boat leaves its berth under the keyboard and runs into the *)
(* islands that have loaded.  input is what getInput() returns now: the     *)
(* forward axis of the keys held, moved one step by a keydown or a keyup of *)
(* a forward or backward key.  Every frame comes 100 ms after the frame     *)
(* before it, so every tick has dt = 0.1.                                   *)

MaxVoyageTicks == 22
MaxKeyEvents == 2

\* An island across the course of the boat, and one lying aslant of it.
Wall == Polygon(<< <<-12, -14>>, <<-4, -14>>, <<-4, -18>>, <<-12, -18>> >>)
Slant == Polygon(<< <<-12, -12>>, <<-4, -16>>, <<-4, -20>>, <<-12, -20>> >>)

\* The colliders that have loaded when the voyage starts.
VoyageColliders ==
    { << >>,
      << [polygon |-> Wall] >>,
      << [polygon |-> Slant] >>,
      << [polygon |-> IslandPolygon(1)], [polygon |-> Slant] >> }

InitVoyage ==
    /\ state = InitialGameState
    /\ pre = state
    /\ colliders \in VoyageColliders
    /\ loading = {}
    /\ portPolygon = << >>
    /\ atPort = FALSE
    /\ cameraState = createCameraState
    /\ input = NoInput
    /\ dt = Zero
    /\ pc = "loaded"
    /\ boatCorners = << >>
    /\ result = NoMTV
    /\ IdleTriangulator
    /\ IdleCruise /\ IdleLoop /\ IdleOverlap /\ IdleReel

\* keydown / keyup of ArrowUp, KeyW, ArrowDown or KeyS: keys.add(e.code),
\* keys.delete(e.code)
KeyEvent ==
    /\ presses < MaxKeyEvents
    /\ \E forward \in {-1, 0, 1} :
         /\ forward - input.forward \in {-1, 1}
         /\ input' = [forward |-> forward, turn |-> 0]
    /\ presses' = presses + 1
    /\ pc' = "key"
    /\ UNCHANGED <<state, pre, dt, calls, clock, lastTime, lastFrameTime, cameraState,
                   colliders, loading, portPolygon, atPort, boatCorners, islandPolygon,
                   result, indices, triangles, iterations>>
    /\ UNCHANGED <<overlapVars, persistentState, nearTrapIndex, reelMode, storage,
                   lobsterCount, trapManager>>

\* An animation frame 100 ms after the last one: this.loop()
VoyageFrame ==
    /\ calls < MaxVoyageTicks
    /\ LoopFrom(lastTime, RAdd(clock, Num(100)), { input }, { Rat(3, 10) })

NextVoyage == VoyageFrame \/ KeyEvent

SpecVoyage == InitVoyage /\ [][NextVoyage]_vars

\* The velocities updateBoatPhysics can leave in a tick from st under in.
IntegratedVelocities(st, in, delta) ==
    UNION { { RoundState(updateBoatPhysics(st, in, delta, heading, speed)).velocity :
                speed \in Sqrt(Len2(ThrustedVelocity(st, heading, in, delta))) } :
            heading \in TurnedHeadings(st, TurnedVelocity(st, in, delta), delta) }

(* C24: in every state the tick loop reaches the velocity has a magnitude   *)
(* of at most MAX_SPEED, and the velocity a tick leaves, after the          *)
(* collisions with the islands, is no faster than the velocity the          *)
(* integrator produced in that tick.                                        *)
C24_SpeedNeverAboveMax ==
    [][/\ RLe(Len2(state'.velocity), Num(MAX_SPEED * MAX_SPEED))
       /\ (pc' = "tick" /\ calls' = calls + 1) =>
             \E velocity \in IntegratedVelocities(state, input', dt') :
                RLe(Len2(state'.velocity), Len2(velocity))]_vars

\* The boat ran into the slanted island at more than 11 units a second; the
\* collision left it a velocity along the shore.
C24_Witness ==
    /\ pc = "tick"
    /\ Len(colliders) = 1
    /\ colliders[1].polygon = Slant
    /\ RGt(Len2(pre.velocity), Num(121))
    /\ state.velocity.x # Zero
    /\ RLt(Len2(state.velocity), Len2(pre.velocity))


=============================================================================
